---- MODULE Spec2Model ----
(***************************************************************************)
(* The virtual TV of src/main.js: power, menu, the photo / video /         *)
(* "3D model" galleries, their asynchronous loads, the fullscreen          *)
(* overlays and the redraw ticker, as one state machine.                   *)
(*                                                                         *)
(* Every global of the script that the TV reads or writes is a variable.   *)
(* A source function is an operator from a record of all globals to the    *)
(* record after the call (names kept); an event handler is an action that  *)
(* commits the record its handler returns.  The browser is the             *)
(* environment: it delivers load callbacks, media-element events and       *)
(* animation frames in any order the platform allows.                      *)
(***************************************************************************)
EXTENDS Integers, Sequences, FiniteSets, TLC

(* ------------------------------------------------------------------ *)
(* Program constants                                                   *)
(* ------------------------------------------------------------------ *)
MENU_ITEMS == <<"PHOTO", "VIDEO", "3D MODEL">>
NPhoto == 7
NVideo == 3
NModel == 5
ModelImageIdx == 4
(* the TV canvas and its texture transform *)
TV_W == 1920
TV_H == 1080
TV_MENU_BTN == [pad |-> 36, w |-> 220, h |-> 86]
tvTexRepeat == [x |-> 1, y |-> 1]
tvTexOffset == [x |-> 0, y |-> 0]

(* night vision auto-gain: gains in units of 10^-8, luminances in units  *)
(* of 10^-4, frame times in units of 1/1200 s                             *)
AE_INIT_GAIN == 145000000
aeTargetLuma == 1800
aeMinGain == 80000000
aeMaxGain == 320000000
AE_EPS == 1
AE_ADAPT_INV == 10
AE_SAMPLE_PERIOD == 100
FrameDt == 20
GainPerMilli == 100000
(* PRESS_LERP = 0.35 = 7 / 20 *)
PRESS_LERP_NUM == 7
PRESS_LERP_DEN == 20
MAX_GLOW_HOVER_MS == 2000
HINT_AUTOHIDE_MS == 2000
DUR_MS == 550

(* Bounds of the exploration *)
MaxPhotoLoads == 2
MaxEvQ == 2
MaxOpPhotoLoads == 1
MaxTicks == 2
TickMs == 275
NTracks == 2
MaxOpens == 2
HoverTickMs == 500
MaxHoverMs == 3000
MaxAeSamples == 5
MaxPressFrames == 3
MaxLampSamples == 1

NoIdx == -1
UiStates == {"MENU", "PHOTO", "VIDEO", "3D MODEL"}
Deltas == {-1, 1}

(* isImageUrl / isVideoUrl on MODEL_PATHS[i] *)
isImageUrl(i) == i = ModelImageIdx
isVideoUrl(i) == i \in 0..(NModel - 1) /\ i # ModelImageIdx

VARIABLES
  now,
  tvOn, tvUiState, menuIndex, blinkT0, menuHover,
  tvAnim, tvBootT0, tvBooting,
  texOn, screen,
  photoIndex, photoImage, photoLoading, currentPhotoUrl, photoReqs,
  videoIndex, videoEl, videoReady, videoPlaying,
  modelIndex, modelVideoEl, modelImageEl, modelMediaType, modelReady,
  modelPlaying, currentModelUrl, modelImageLoading,
  overlayOpen, photoOverlayImg,
  videoOverlayOpen, tvVideoSuppressed, overlayVideoIsFullscreen, videoOverlayEl,
  modelOverlayOpen, tvModelSuppressed, overlayModelIsFullscreen, modelOverlayEl,
  modelOverlayImg, fsEl,
  trackIndex, isPlaying, audioEls,
  pendingExternalUrl, externalOpens,
  glowState, currentHoverKey, hintTimeout, hintSuppressed, hintShown,
  ptrOver, ptrSince,
  lampMood, nightVisionOn, nightVisionPass, aeGain, aeSampleAccum,
  avgLuma, aeSamples,
  loadTotal, loadDone, loaderFinished, loaderHidden, assetFinished,
  ptrUv, srcSize, drawRect, tvPower,
  pressState, pressFrames,
  plan, lastOp

vars == <<now, tvOn, tvUiState, menuIndex, blinkT0, menuHover,
  tvAnim, tvBootT0, tvBooting, texOn, screen,
  photoIndex, photoImage, photoLoading, currentPhotoUrl, photoReqs,
  videoIndex, videoEl, videoReady, videoPlaying,
  modelIndex, modelVideoEl, modelImageEl, modelMediaType, modelReady,
  modelPlaying, currentModelUrl, modelImageLoading,
  overlayOpen, photoOverlayImg,
  videoOverlayOpen, tvVideoSuppressed, overlayVideoIsFullscreen, videoOverlayEl,
  modelOverlayOpen, tvModelSuppressed, overlayModelIsFullscreen, modelOverlayEl,
  modelOverlayImg, fsEl,
  trackIndex, isPlaying, audioEls, pendingExternalUrl, externalOpens,
  glowState, currentHoverKey, hintTimeout, hintSuppressed, hintShown,
  ptrOver, ptrSince,
  lampMood, nightVisionOn, nightVisionPass, aeGain, aeSampleAccum,
  avgLuma, aeSamples,
  loadTotal, loadDone, loaderFinished, loaderHidden, assetFinished,
  ptrUv, srcSize, drawRect, tvPower,
  pressState, pressFrames,
  plan, lastOp>>

(* The globals as one record, and the commit of a record to the variables *)
St == [now |-> now,
  tvOn |-> tvOn, tvUiState |-> tvUiState, menuIndex |-> menuIndex,
  blinkT0 |-> blinkT0, menuHover |-> menuHover,
  tvAnim |-> tvAnim, tvBootT0 |-> tvBootT0, tvBooting |-> tvBooting,
  texOn |-> texOn, screen |-> screen,
  photoIndex |-> photoIndex, photoImage |-> photoImage,
  photoLoading |-> photoLoading, currentPhotoUrl |-> currentPhotoUrl,
  photoReqs |-> photoReqs,
  videoIndex |-> videoIndex, videoEl |-> videoEl, videoReady |-> videoReady,
  videoPlaying |-> videoPlaying,
  modelIndex |-> modelIndex, modelVideoEl |-> modelVideoEl,
  modelImageEl |-> modelImageEl, modelMediaType |-> modelMediaType,
  modelReady |-> modelReady, modelPlaying |-> modelPlaying,
  currentModelUrl |-> currentModelUrl, modelImageLoading |-> modelImageLoading,
  overlayOpen |-> overlayOpen, photoOverlayImg |-> photoOverlayImg,
  videoOverlayOpen |-> videoOverlayOpen, tvVideoSuppressed |-> tvVideoSuppressed,
  overlayVideoIsFullscreen |-> overlayVideoIsFullscreen,
  videoOverlayEl |-> videoOverlayEl,
  modelOverlayOpen |-> modelOverlayOpen, tvModelSuppressed |-> tvModelSuppressed,
  overlayModelIsFullscreen |-> overlayModelIsFullscreen,
  modelOverlayEl |-> modelOverlayEl, modelOverlayImg |-> modelOverlayImg,
  fsEl |-> fsEl,
  trackIndex |-> trackIndex, isPlaying |-> isPlaying, audioEls |-> audioEls,
  pendingExternalUrl |-> pendingExternalUrl, externalOpens |-> externalOpens,
  glowState |-> glowState, currentHoverKey |-> currentHoverKey,
  hintTimeout |-> hintTimeout, hintSuppressed |-> hintSuppressed,
  hintShown |-> hintShown, ptrOver |-> ptrOver, ptrSince |-> ptrSince,
  lampMood |-> lampMood, nightVisionOn |-> nightVisionOn,
  nightVisionPass |-> nightVisionPass, aeGain |-> aeGain,
  aeSampleAccum |-> aeSampleAccum, avgLuma |-> avgLuma,
  aeSamples |-> aeSamples,
  loadTotal |-> loadTotal, loadDone |-> loadDone,
  loaderFinished |-> loaderFinished, loaderHidden |-> loaderHidden,
  assetFinished |-> assetFinished, ptrUv |-> ptrUv,
  srcSize |-> srcSize, drawRect |-> drawRect, tvPower |-> tvPower,
  pressState |-> pressState, pressFrames |-> pressFrames]

Commit(s) ==
  /\ now' = s.now
  /\ tvOn' = s.tvOn
  /\ tvUiState' = s.tvUiState
  /\ menuIndex' = s.menuIndex
  /\ blinkT0' = s.blinkT0
  /\ menuHover' = s.menuHover
  /\ tvAnim' = s.tvAnim
  /\ tvBootT0' = s.tvBootT0
  /\ tvBooting' = s.tvBooting
  /\ texOn' = s.texOn
  /\ screen' = s.screen
  /\ photoIndex' = s.photoIndex
  /\ photoImage' = s.photoImage
  /\ photoLoading' = s.photoLoading
  /\ currentPhotoUrl' = s.currentPhotoUrl
  /\ photoReqs' = s.photoReqs
  /\ videoIndex' = s.videoIndex
  /\ videoEl' = s.videoEl
  /\ videoReady' = s.videoReady
  /\ videoPlaying' = s.videoPlaying
  /\ modelIndex' = s.modelIndex
  /\ modelVideoEl' = s.modelVideoEl
  /\ modelImageEl' = s.modelImageEl
  /\ modelMediaType' = s.modelMediaType
  /\ modelReady' = s.modelReady
  /\ modelPlaying' = s.modelPlaying
  /\ currentModelUrl' = s.currentModelUrl
  /\ modelImageLoading' = s.modelImageLoading
  /\ overlayOpen' = s.overlayOpen
  /\ photoOverlayImg' = s.photoOverlayImg
  /\ videoOverlayOpen' = s.videoOverlayOpen
  /\ tvVideoSuppressed' = s.tvVideoSuppressed
  /\ overlayVideoIsFullscreen' = s.overlayVideoIsFullscreen
  /\ videoOverlayEl' = s.videoOverlayEl
  /\ modelOverlayOpen' = s.modelOverlayOpen
  /\ tvModelSuppressed' = s.tvModelSuppressed
  /\ overlayModelIsFullscreen' = s.overlayModelIsFullscreen
  /\ modelOverlayEl' = s.modelOverlayEl
  /\ modelOverlayImg' = s.modelOverlayImg
  /\ fsEl' = s.fsEl
  /\ trackIndex' = s.trackIndex
  /\ isPlaying' = s.isPlaying
  /\ audioEls' = s.audioEls
  /\ pendingExternalUrl' = s.pendingExternalUrl
  /\ externalOpens' = s.externalOpens
  /\ glowState' = s.glowState
  /\ currentHoverKey' = s.currentHoverKey
  /\ hintTimeout' = s.hintTimeout
  /\ hintSuppressed' = s.hintSuppressed
  /\ hintShown' = s.hintShown
  /\ ptrOver' = s.ptrOver
  /\ ptrSince' = s.ptrSince
  /\ lampMood' = s.lampMood
  /\ nightVisionOn' = s.nightVisionOn
  /\ nightVisionPass' = s.nightVisionPass
  /\ aeGain' = s.aeGain
  /\ aeSampleAccum' = s.aeSampleAccum
  /\ avgLuma' = s.avgLuma
  /\ aeSamples' = s.aeSamples
  /\ loadTotal' = s.loadTotal
  /\ loadDone' = s.loadDone
  /\ loaderFinished' = s.loaderFinished
  /\ loaderHidden' = s.loaderHidden
  /\ assetFinished' = s.assetFinished
  /\ ptrUv' = s.ptrUv
  /\ srcSize' = s.srcSize
  /\ drawRect' = s.drawRect
  /\ tvPower' = s.tvPower
  /\ pressState' = s.pressState
  /\ pressFrames' = s.pressFrames
  /\ UNCHANGED plan

(* ------------------------------------------------------------------ *)
(* ScreenBuffer contents: what the last draw call left on tvCanvas     *)
(* ------------------------------------------------------------------ *)
ScrNone == [k |-> "none", g |-> "-", i |-> NoIdx]
ScrBlack == [k |-> "black", g |-> "-", i |-> NoIdx]
ScrMenu(sel) == [k |-> "menu", g |-> "-", i |-> sel]
ScrImage(img) == [k |-> "image", g |-> img.g, i |-> img.i]
ScrFrame(gal, src) == [k |-> "frame", g |-> gal, i |-> src]

(* image objects: a decoded photo of PHOTO_PATHS or the model image element *)
NoImage == [g |-> "-", i |-> NoIdx]
PhotoImg(i) == [g |-> "P", i |-> i]
ModelImg(i) == [g |-> "M", i |-> i]

(* ------------------------------------------------------------------ *)
(* HTMLMediaElement, as far as the script observes it                  *)
(*   q    : tasks queued on the element's event task source (FIFO)     *)
(*   prom : play() promises still pending                              *)
(* ------------------------------------------------------------------ *)
NoEl == [made |-> FALSE, src |-> NoIdx, paused |-> TRUE, loaded |-> FALSE,
         prom |-> 0, q |-> <<>>]
NewEl == [NoEl EXCEPT !.made = TRUE]

ElPause(e) ==
  IF e.paused THEN e
  ELSE [e EXCEPT !.paused = TRUE,
                 !.q = Append(@, IF e.prom > 0 THEN "pauseRej" ELSE "pause"),
                 !.prom = 0]

ElPlay(e) ==
  LET e1 == [e EXCEPT !.paused = FALSE,
                      !.q = IF e.paused THEN Append(@, "play") ELSE @,
                      !.prom = @ + 1]
  IN IF e1.loaded THEN [e1 EXCEPT !.q = Append(@, "resolve"), !.prom = 0]
     ELSE e1

ElLoad(e, src) ==
  [e EXCEPT !.src = src, !.paused = TRUE, !.loaded = FALSE, !.prom = 0,
            !.q = <<>>]

(* load() settles at once the play promises whose settlement is queued or  *)
(* pending; the awaiting playVideo()/playModel() continuations then run    *)
(* after the current handler.  The flag they leave: the last one wins.     *)
RECURSIVE SettledPlaying(_, _)
SettledPlaying(q, cur) ==
  IF q = <<>> THEN cur
  ELSE SettledPlaying(Tail(q),
         IF Head(q) = "resolve" THEN TRUE
         ELSE IF Head(q) = "pauseRej" THEN FALSE
         ELSE cur)

FlushPlaying(e, cur) ==
  LET afterQ == SettledPlaying(e.q, cur)
  IN IF ~e.paused /\ e.prom > 0 THEN FALSE ELSE afterQ


(* HTMLImageElement used for the model image: one element, src swapped *)
NoImgEl == [made |-> FALSE, src |-> NoIdx, complete |-> FALSE, pending |-> FALSE]

(* the overlay <video> players: only src and paused are read by the script *)
NoOverlayEl == [src |-> NoIdx, paused |-> TRUE]
DocUrl == -2

(* ------------------------------------------------------------------ *)
(* Canvas helpers                                                      *)
(* ------------------------------------------------------------------ *)
drawTvMenu(s) == [s EXCEPT !.screen = ScrMenu(s.menuIndex)]

clearTvScreen(s) == [s EXCEPT !.screen = ScrBlack]

applyTvTextureEnabled(s, enabled) == [s EXCEPT !.texOn = enabled]

(* drawImage of an image that is not decoded paints nothing over the black fill *)
drawPhotoToTv(s, img, decoded) ==
  [s EXCEPT !.screen = IF decoded THEN ScrImage(img) ELSE ScrBlack]

(* ------------------------------------------------------------------ *)
(* PHOTO gallery                                                       *)
(* ------------------------------------------------------------------ *)
loadPhotoAt(s, index) ==
  IF ~s.tvOn THEN s
  ELSE IF s.tvUiState # "PHOTO" THEN s
  ELSE LET idx == (index + NPhoto) % NPhoto
       IN [s EXCEPT !.photoIndex = idx,
                    !.currentPhotoUrl = idx,
                    !.photoLoading = TRUE,
                    !.photoReqs = [@ EXCEPT ![idx] = @ + 1]]

(* imgLoader.load onLoad callback of the request for PHOTO_PATHS[i] *)
photoOnLoad(s, i) ==
  drawPhotoToTv([s EXCEPT !.photoImage = PhotoImg(i), !.photoLoading = FALSE],
                PhotoImg(i), TRUE)

(* variant: the failure leaves the loading flag set *)
photoOnError_keepLoading(s, i) == s

(* imgLoader.load onError callback *)
photoOnError(s, i) == [s EXCEPT !.photoLoading = FALSE]

nextPhoto(s, delta) ==
  IF ~s.tvOn THEN s
  ELSE IF s.tvUiState # "PHOTO" THEN s
  ELSE IF s.photoLoading THEN s
  ELSE loadPhotoAt(s, s.photoIndex + delta)

(* ------------------------------------------------------------------ *)
(* VIDEO gallery                                                       *)
(* ------------------------------------------------------------------ *)
videoWantsAutoPlay == FALSE

ensureVideoEl(s) == IF s.videoEl.made THEN s ELSE [s EXCEPT !.videoEl = NewEl]

drawVideoFrameToTv(s) ==
  IF ~s.videoEl.made \/ ~s.videoReady THEN s
  ELSE [s EXCEPT !.screen = IF s.videoEl.loaded
                            THEN ScrFrame("V", s.videoEl.src) ELSE ScrBlack]

(* allowed: whether the browser lets play() start (autoplay policy) *)
playVideo(s, allowed) ==
  IF ~s.tvOn THEN s
  ELSE IF s.tvUiState # "VIDEO" THEN s
  ELSE IF ~s.videoEl.made THEN s
  ELSE IF allowed THEN [s EXCEPT !.videoEl = ElPlay(@)]
  ELSE [s EXCEPT !.videoPlaying = FALSE]

pauseVideo(s) ==
  IF ~s.videoEl.made THEN s
  ELSE [s EXCEPT !.videoEl = ElPause(@), !.videoPlaying = FALSE]

stopVideoCompletely(s) ==
  IF ~s.videoEl.made THEN s
  ELSE [s EXCEPT !.videoEl = ElPause(@), !.videoPlaying = FALSE,
                 !.videoReady = FALSE]

loadVideoAt(s, index, autoPlay, allowed) ==
  IF ~s.tvOn THEN s
  ELSE IF s.tvUiState # "VIDEO" THEN s
  ELSE LET s1 == ensureVideoEl(s)
           idx == (index + NVideo) % NVideo
           e1 == ElPause(s1.videoEl)
           s2 == clearTvScreen([s1 EXCEPT !.videoIndex = idx,
                                          !.videoReady = FALSE,
                                          !.videoPlaying = FALSE,
                                          !.videoEl = ElLoad(e1, idx)])
           s3 == IF autoPlay THEN playVideo(s2, allowed) ELSE s2
       IN [s3 EXCEPT !.videoPlaying =
             IF autoPlay /\ ~allowed THEN FALSE ELSE FlushPlaying(e1, FALSE)]

toggleVideoPlayPause(s, allowed) ==
  IF ~s.videoEl.made THEN s
  ELSE IF s.videoEl.paused THEN playVideo(s, allowed)
  ELSE pauseVideo(s)

(* variant: left and right both go to the following video *)
nextVideo_forward(s, delta, allowed) ==
  IF ~s.tvOn THEN s
  ELSE IF s.tvUiState # "VIDEO" THEN s
  ELSE LET shouldPlay == s.videoPlaying /\ s.videoEl.made /\ ~s.videoEl.paused
       IN loadVideoAt(s, s.videoIndex + 1, shouldPlay, allowed)

nextVideo(s, delta, allowed) ==
  IF ~s.tvOn THEN s
  ELSE IF s.tvUiState # "VIDEO" THEN s
  ELSE LET shouldPlay == s.videoPlaying /\ s.videoEl.made /\ ~s.videoEl.paused
       IN loadVideoAt(s, s.videoIndex + delta, shouldPlay, allowed)

(* listeners registered by ensureVideoEl, run for one delivered event *)
videoElOnEvent(s, ev) ==
  IF ev = "loadeddata"
  THEN LET s1 == [s EXCEPT !.videoReady = TRUE]
           s2 == IF s1.tvOn /\ s1.tvUiState = "VIDEO"
                 THEN drawVideoFrameToTv(s1) ELSE s1
       IN IF s2.tvOn /\ s2.tvUiState = "VIDEO" /\ videoWantsAutoPlay
             /\ s2.videoEl.paused
          THEN playVideo(s2, TRUE) ELSE s2
  ELSE IF ev \in {"pause", "pauseRej"} THEN [s EXCEPT !.videoPlaying = FALSE]
  ELSE [s EXCEPT !.videoPlaying = TRUE]


(* ------------------------------------------------------------------ *)
(* 3D MODEL gallery (videos and one image)                             *)
(* ------------------------------------------------------------------ *)
modelWantsAutoPlay == FALSE

ensureModelVideoEl(s) ==
  IF s.modelVideoEl.made THEN s ELSE [s EXCEPT !.modelVideoEl = NewEl]

ensureModelImageEl(s) ==
  IF s.modelImageEl.made THEN s
  ELSE [s EXCEPT !.modelImageEl = [NoImgEl EXCEPT !.made = TRUE]]

drawModelFrameToTv(s) ==
  IF s.modelMediaType # "video" THEN s
  ELSE IF ~s.modelVideoEl.made \/ ~s.modelReady THEN s
  ELSE [s EXCEPT !.screen = IF s.modelVideoEl.loaded
                            THEN ScrFrame("M", s.modelVideoEl.src) ELSE ScrBlack]

drawModelToTv(s) ==
  IF s.modelMediaType = "image"
  THEN IF ~s.modelImageEl.made \/ ~s.modelReady THEN s
       ELSE drawPhotoToTv(s, ModelImg(s.modelImageEl.src), s.modelImageEl.complete)
  ELSE drawModelFrameToTv(s)

playModel(s, allowed) ==
  IF ~s.tvOn THEN s
  ELSE IF s.tvUiState # "3D MODEL" THEN s
  ELSE IF ~s.modelVideoEl.made THEN s
  ELSE IF allowed THEN [s EXCEPT !.modelVideoEl = ElPlay(@)]
  ELSE [s EXCEPT !.modelPlaying = FALSE]

pauseModel(s) ==
  IF s.modelMediaType # "video" THEN s
  ELSE IF ~s.modelVideoEl.made THEN s
  ELSE [s EXCEPT !.modelVideoEl = ElPause(@), !.modelPlaying = FALSE]

stopModelCompletely(s) ==
  IF ~s.modelVideoEl.made THEN s
  ELSE [s EXCEPT !.modelVideoEl = ElPause(@), !.modelPlaying = FALSE,
                 !.modelReady = FALSE]

loadModelAt(s, index, autoPlay, allowed) ==
  IF ~s.tvOn THEN s
  ELSE IF s.tvUiState # "3D MODEL" THEN s
  ELSE LET idx == (index + NModel) % NModel
           s1 == clearTvScreen([s EXCEPT !.modelIndex = idx,
                                         !.currentModelUrl = idx,
                                         !.modelReady = FALSE,
                                         !.modelPlaying = FALSE])
       IN IF isImageUrl(idx)
          THEN LET s2 == ensureModelImageEl([s1 EXCEPT !.modelMediaType = "image"])
                   s3 == IF s2.modelVideoEl.made
                         THEN [s2 EXCEPT !.modelVideoEl = ElPause(@)] ELSE s2
               IN [s3 EXCEPT !.modelPlaying = FALSE,
                             !.modelImageLoading = TRUE,
                             !.modelImageEl = [@ EXCEPT !.src = idx,
                                                        !.complete = FALSE,
                                                        !.pending = TRUE]]
          ELSE LET s2 == ensureModelVideoEl([s1 EXCEPT !.modelMediaType = "video"])
                   e1 == ElPause(s2.modelVideoEl)
                   s3 == [s2 EXCEPT !.modelVideoEl = ElLoad(e1, idx)]
                   s4 == IF autoPlay THEN playModel(s3, allowed) ELSE pauseModel(s3)
               IN [s4 EXCEPT !.modelPlaying =
                     IF autoPlay /\ ~allowed THEN FALSE
                     ELSE FlushPlaying(e1, FALSE)]

toggleModelPlayPause(s, allowed) ==
  IF s.modelMediaType # "video" THEN s
  ELSE IF ~s.modelVideoEl.made THEN s
  ELSE IF s.modelVideoEl.paused THEN playModel(s, allowed)
  ELSE pauseModel(s)

nextModel(s, delta, allowed) ==
  IF ~s.tvOn THEN s
  ELSE IF s.tvUiState # "3D MODEL" THEN s
  ELSE LET shouldPlay == s.modelPlaying /\ s.modelVideoEl.made
                         /\ ~s.modelVideoEl.paused
       IN loadModelAt(s, s.modelIndex + delta, shouldPlay, allowed)

(* listeners registered by ensureModelVideoEl *)
modelVideoElOnEvent(s, ev) ==
  IF ev = "loadeddata"
  THEN LET s1 == [s EXCEPT !.modelReady = TRUE]
           s2 == IF s1.tvOn /\ s1.tvUiState = "3D MODEL"
                 THEN drawModelToTv(s1) ELSE s1
       IN IF s2.tvOn /\ s2.tvUiState = "3D MODEL" /\ modelWantsAutoPlay
             /\ s2.modelVideoEl.paused
          THEN playModel(s2, TRUE) ELSE s2
  ELSE IF ev \in {"pause", "pauseRej"} THEN [s EXCEPT !.modelPlaying = FALSE]
  ELSE [s EXCEPT !.modelPlaying = TRUE]

(* modelImageEl.onload / onerror, as set by loadModelAt *)
modelImageOnLoad(s) ==
  drawModelToTv([s EXCEPT !.modelImageLoading = FALSE, !.modelReady = TRUE])

modelImageOnError(s) == [s EXCEPT !.modelImageLoading = FALSE]

(* ------------------------------------------------------------------ *)
(* Menu                                                                *)
(* ------------------------------------------------------------------ *)
(* variant: the selection moves whatever state the TV is in *)
moveMenuSelection_unguarded(s, delta) ==
  LET n == Len(MENU_ITEMS)
  IN drawTvMenu([s EXCEPT !.menuIndex = (s.menuIndex + delta + n) % n,
                          !.blinkT0 = s.now])

(* variant: the selection stops at the first and the last item *)
moveMenuSelection_clamp(s, delta) ==
  IF ~s.tvOn THEN s
  ELSE IF s.tvUiState # "MENU" THEN s
  ELSE LET n == Len(MENU_ITEMS)
           i == s.menuIndex + delta
       IN drawTvMenu([s EXCEPT !.menuIndex = IF i < 0 THEN 0
                                             ELSE IF i > n - 1 THEN n - 1 ELSE i,
                               !.blinkT0 = s.now])

moveMenuSelection(s, delta) ==
  IF ~s.tvOn THEN s
  ELSE IF s.tvUiState # "MENU" THEN s
  ELSE LET n == Len(MENU_ITEMS)
       IN drawTvMenu([s EXCEPT !.menuIndex = (s.menuIndex + delta + n) % n,
                               !.blinkT0 = s.now])

(* variant: a mode is re-entered at the item where it was left *)
confirmMenuSelection_resume(s, allowed) ==
  IF ~s.tvOn THEN s
  ELSE IF s.tvUiState # "MENU" THEN s
  ELSE LET selected == MENU_ITEMS[s.menuIndex + 1]
           s1 == [s EXCEPT !.tvUiState = selected]
       IN IF selected = "PHOTO"
          THEN loadPhotoAt([s1 EXCEPT !.photoImage = NoImage,
                                      !.photoLoading = FALSE], s.photoIndex)
          ELSE IF selected = "VIDEO"
          THEN loadVideoAt(ensureVideoEl(s1), s.videoIndex, TRUE, allowed)
          ELSE IF selected = "3D MODEL"
          THEN loadModelAt(ensureModelVideoEl(s1), s.modelIndex, TRUE, allowed)
          ELSE drawTvMenu(s1)

confirmMenuSelection(s, allowed) ==
  IF ~s.tvOn THEN s
  ELSE IF s.tvUiState # "MENU" THEN s
  ELSE LET selected == MENU_ITEMS[s.menuIndex + 1]
           s1 == [s EXCEPT !.tvUiState = selected]
       IN IF selected = "PHOTO"
          THEN loadPhotoAt([s1 EXCEPT !.photoImage = NoImage,
                                      !.photoLoading = FALSE], 0)
          ELSE IF selected = "VIDEO"
          THEN loadVideoAt(ensureVideoEl(s1), 0, TRUE, allowed)
          ELSE IF selected = "3D MODEL"
          THEN loadModelAt(ensureModelVideoEl(s1), 0, TRUE, allowed)
          ELSE drawTvMenu(s1)

(* ------------------------------------------------------------------ *)
(* Power                                                               *)
(* ------------------------------------------------------------------ *)
NoAnim == [active |-> FALSE, from |-> 0, to |-> 0, t0 |-> 0]
BOOT_FLICKER_MS == 230

(* variant: a call with the state the TV already has starts over *)
setTvPower_restart(s, nextOn) ==
  LET from == IF s.tvOn THEN 1 ELSE 0
      to == IF nextOn THEN 1 ELSE 0
      s1 == [s EXCEPT !.tvOn = nextOn]
      s2 == IF ~s1.tvOn
            THEN applyTvTextureEnabled(
                   clearTvScreen(stopModelCompletely(stopVideoCompletely(s1))),
                   FALSE)
            ELSE applyTvTextureEnabled(s1, TRUE)
      s3 == IF s2.tvOn
            THEN drawTvMenu([s2 EXCEPT !.blinkT0 = s.now,
                                       !.tvUiState = "MENU",
                                       !.menuIndex = 0,
                                       !.tvBootT0 = s.now,
                                       !.tvBooting = TRUE])
            ELSE s2
  IN [s3 EXCEPT !.tvAnim = [active |-> TRUE, from |-> from, to |-> to,
                            t0 |-> s.now]]

(* variant: power-on keeps the selection the menu had *)
setTvPower_keepSelection(s, nextOn) ==
  LET from == IF s.tvOn THEN 1 ELSE 0
      to == IF nextOn THEN 1 ELSE 0
  IN IF from = to THEN s
     ELSE LET s1 == [s EXCEPT !.tvOn = nextOn]
              s2 == IF ~s1.tvOn
                    THEN applyTvTextureEnabled(
                           clearTvScreen(stopModelCompletely(stopVideoCompletely(s1))),
                           FALSE)
                    ELSE applyTvTextureEnabled(s1, TRUE)
              s3 == IF s2.tvOn
                    THEN drawTvMenu([s2 EXCEPT !.blinkT0 = s.now,
                                               !.tvUiState = "MENU",
                                               !.tvBootT0 = s.now,
                                               !.tvBooting = TRUE])
                    ELSE s2
          IN [s3 EXCEPT !.tvAnim = [active |-> TRUE, from |-> from, to |-> to,
                                    t0 |-> s.now]]

(* variant: a toggle during an animation lets that animation run on *)
setTvPower_keepAnim(s, nextOn) ==
  LET from == IF s.tvOn THEN 1 ELSE 0
      to == IF nextOn THEN 1 ELSE 0
  IN IF from = to THEN s
     ELSE LET s1 == [s EXCEPT !.tvOn = nextOn]
              s2 == IF ~s1.tvOn
                    THEN applyTvTextureEnabled(
                           clearTvScreen(stopModelCompletely(stopVideoCompletely(s1))),
                           FALSE)
                    ELSE applyTvTextureEnabled(s1, TRUE)
              s3 == IF s2.tvOn
                    THEN drawTvMenu([s2 EXCEPT !.blinkT0 = s.now,
                                               !.tvUiState = "MENU",
                                               !.menuIndex = 0,
                                               !.tvBootT0 = s.now,
                                               !.tvBooting = TRUE])
                    ELSE s2
          IN IF s.tvAnim.active THEN s3
             ELSE [s3 EXCEPT !.tvAnim = [active |-> TRUE, from |-> from,
                                         to |-> to, t0 |-> s.now]]

setTvPower(s, nextOn) ==
  LET from == IF s.tvOn THEN 1 ELSE 0
      to == IF nextOn THEN 1 ELSE 0
  IN IF from = to THEN s
     ELSE LET s1 == [s EXCEPT !.tvOn = nextOn]
              s2 == IF ~s1.tvOn
                    THEN applyTvTextureEnabled(
                           clearTvScreen(stopModelCompletely(stopVideoCompletely(s1))),
                           FALSE)
                    ELSE applyTvTextureEnabled(s1, TRUE)
              s3 == IF s2.tvOn
                    THEN drawTvMenu([s2 EXCEPT !.blinkT0 = s.now,
                                               !.tvUiState = "MENU",
                                               !.menuIndex = 0,
                                               !.tvBootT0 = s.now,
                                               !.tvBooting = TRUE])
                    ELSE s2
          IN [s3 EXCEPT !.tvAnim = [active |-> TRUE, from |-> from, to |-> to,
                                    t0 |-> s.now]]

(* the visual power level 1, in the unit of tvPower: 1 / DUR_MS^3 *)
PowerOne == DUR_MS * DUR_MS * DUR_MS

(* a = from + (to - from) * (1 - (1 - t)^3), t = min(dt / DUR, 1) *)
easedPower(anim, dt) ==
  LET rest == IF dt >= DUR_MS THEN 0 ELSE DUR_MS - dt
      ease == PowerOne - rest * rest * rest
  IN anim.from * PowerOne + (anim.to - anim.from) * ease

(* the boot branch updateTv takes on the emissive intensity it has just     *)
(* computed: "flash" adds 2.2, "flicker" multiplies by a random factor in   *)
(* 0.85..1.15, "done" clears tvBooting, "none" leaves the ramp as it is     *)
BOOT_FLASH_MS == 80
bootPhase(s) ==
  IF ~s.tvAnim.active \/ ~s.tvBooting THEN "none"
  ELSE LET dtBoot == s.now - s.tvBootT0
       IN IF dtBoot < BOOT_FLASH_MS THEN "flash"
          ELSE IF dtBoot < BOOT_FLICKER_MS THEN "flicker"
          ELSE "done"

updateTv(s) ==
  IF ~s.tvAnim.active THEN s
  ELSE LET dt == s.now - s.tvAnim.t0
           s0 == [s EXCEPT !.tvPower = easedPower(s.tvAnim, dt)]
           s1 == IF s.tvBooting /\ ~(s.now - s.tvBootT0 < BOOT_FLICKER_MS)
                 THEN [s0 EXCEPT !.tvBooting = FALSE] ELSE s0
       IN IF dt >= DUR_MS
          THEN [s1 EXCEPT !.tvAnim = NoAnim,
                          !.tvPower = IF s.tvOn THEN PowerOne ELSE 0]
          ELSE s1


(* ------------------------------------------------------------------ *)
(* Fullscreen overlays                                                 *)
(* ------------------------------------------------------------------ *)
openPhotoOverlay(s, url) ==
  IF url = NoIdx THEN s
  ELSE [s EXCEPT !.overlayOpen = TRUE, !.photoOverlayImg = url]

(* variant: closing the photo overlay also returns the TV to its menu *)
closePhotoOverlay_toMenu(s) ==
  drawTvMenu([s EXCEPT !.overlayOpen = FALSE, !.photoOverlayImg = NoIdx,
                       !.tvUiState = "MENU"])

closePhotoOverlay(s) ==
  [s EXCEPT !.overlayOpen = FALSE, !.photoOverlayImg = NoIdx]

(* overlayPrev / overlayNext click and ArrowLeft / ArrowRight keydown *)
photoOverlayNav(s, delta) ==
  LET s1 == nextPhoto(s, delta) IN openPhotoOverlay(s1, s1.currentPhotoUrl)

(* variant: entering fullscreen pauses the video but sets no flag *)
freezeTvVideoForOverlay_noFlag(s) == pauseVideo(s)

freezeTvVideoForOverlay(s) == pauseVideo([s EXCEPT !.tvVideoSuppressed = TRUE])

freezeTvModelForOverlay(s) == pauseModel([s EXCEPT !.tvModelSuppressed = TRUE])

openVideoOverlay(s, allowed) ==
  IF ~s.videoEl.made THEN s
  ELSE LET s1 == pauseVideo([s EXCEPT !.videoOverlayOpen = TRUE,
                                      !.tvVideoSuppressed = FALSE])
           s2 == IF s1.tvOn /\ s1.tvUiState = "VIDEO" /\ s1.videoReady
                 THEN drawVideoFrameToTv(s1) ELSE s1
       IN [s2 EXCEPT !.videoOverlayEl =
             [src |-> s2.videoEl.src,
              paused |-> IF allowed THEN FALSE ELSE @.paused]]

(* variant: closing always leaves the in-world video paused *)
closeVideoOverlay_leavePaused(s, allowed) ==
  LET s1 == [s EXCEPT !.videoOverlayOpen = FALSE,
                      !.tvVideoSuppressed = FALSE,
                      !.overlayVideoIsFullscreen = FALSE]
      s2 == IF s1.videoEl.made /\ s1.videoOverlayEl.src # NoIdx
            THEN pauseVideo(s1)
            ELSE s1
  IN [s2 EXCEPT !.videoOverlayEl = [src |-> DocUrl, paused |-> TRUE]]

closeVideoOverlay(s, allowed) ==
  LET s1 == [s EXCEPT !.videoOverlayOpen = FALSE,
                      !.tvVideoSuppressed = FALSE,
                      !.overlayVideoIsFullscreen = FALSE]
      s2 == IF s1.videoEl.made /\ s1.videoOverlayEl.src # NoIdx
            THEN IF ~s1.videoOverlayEl.paused THEN playVideo(s1, allowed)
                 ELSE pauseVideo(s1)
            ELSE s1
  IN [s2 EXCEPT !.videoOverlayEl = [src |-> DocUrl, paused |-> TRUE]]

(* variant: overlay navigation changes the overlay player only *)
overlayNextVideo_overlayOnly(s, delta, allowed) ==
  IF ~s.videoOverlayOpen THEN s
  ELSE IF s.tvUiState # "VIDEO" THEN s
  ELSE LET idx == (s.videoIndex + delta + NVideo) % NVideo
       IN [s EXCEPT !.videoOverlayEl = [src |-> idx, paused |-> ~allowed]]

overlayNextVideo(s, delta, allowed) ==
  IF ~s.videoOverlayOpen THEN s
  ELSE IF s.tvUiState # "VIDEO" THEN s
  ELSE LET idx == (s.videoIndex + delta + NVideo) % NVideo
           s1 == loadVideoAt([s EXCEPT !.videoIndex = idx], idx, FALSE, allowed)
       IN [s1 EXCEPT !.videoOverlayEl = [src |-> idx, paused |-> ~allowed]]

openModelOverlay(s, allowed) ==
  IF s.modelMediaType = "video" /\ ~s.modelVideoEl.made THEN s
  ELSE IF s.modelMediaType = "image" /\ s.currentModelUrl = NoIdx THEN s
  ELSE LET s1 == pauseModel([s EXCEPT !.modelOverlayOpen = TRUE,
                                      !.tvModelSuppressed = FALSE])
           s2 == IF s1.tvOn /\ s1.tvUiState = "3D MODEL" /\ s1.modelReady
                 THEN drawModelFrameToTv(s1) ELSE s1
       IN IF s2.modelMediaType = "image"
          THEN [s2 EXCEPT !.modelOverlayEl.paused = TRUE,
                          !.modelOverlayImg = s2.currentModelUrl]
          ELSE [s2 EXCEPT !.modelOverlayEl =
                  [src |-> s2.modelVideoEl.src,
                   paused |-> IF allowed THEN FALSE ELSE @.paused]]

closeModelOverlay(s, allowed) ==
  LET s1 == [s EXCEPT !.modelOverlayOpen = FALSE,
                      !.tvModelSuppressed = FALSE,
                      !.overlayModelIsFullscreen = FALSE]
      s2 == IF s1.modelVideoEl.made /\ s1.modelOverlayEl.src # NoIdx
            THEN IF ~s1.modelOverlayEl.paused THEN playModel(s1, allowed)
                 ELSE pauseModel(s1)
            ELSE s1
  IN [s2 EXCEPT !.modelOverlayEl = [src |-> DocUrl, paused |-> TRUE],
                !.modelOverlayImg = NoIdx]

overlayNextModel(s, delta, allowed) ==
  IF ~s.modelOverlayOpen THEN s
  ELSE IF s.tvUiState # "3D MODEL" THEN s
  ELSE LET idx == (s.modelIndex + delta + NModel) % NModel
           s1 == loadModelAt([s EXCEPT !.modelIndex = idx], idx, FALSE, allowed)
       IN IF isImageUrl(idx)
          THEN [s1 EXCEPT !.modelOverlayEl.paused = TRUE,
                          !.modelOverlayImg = idx]
          ELSE [s1 EXCEPT !.modelOverlayEl = [src |-> idx, paused |-> ~allowed]]

(* the document's fullscreenchange / webkitfullscreenchange listeners *)
onVideoFullscreenChange(s) ==
  LET isOverlayFs == s.fsEl = "video"
      s1 == [s EXCEPT !.overlayVideoIsFullscreen = isOverlayFs]
  IN IF isOverlayFs THEN freezeTvVideoForOverlay(s1)
     ELSE LET s2 == [s1 EXCEPT !.tvVideoSuppressed = FALSE]
          IN IF s2.tvOn /\ s2.tvUiState = "VIDEO" /\ s2.videoReady
             THEN drawVideoFrameToTv(s2) ELSE s2

onModelFullscreenChange(s) ==
  LET isOverlayFs == s.fsEl = "model"
      s1 == [s EXCEPT !.overlayModelIsFullscreen = isOverlayFs]
  IN IF isOverlayFs THEN freezeTvModelForOverlay(s1)
     ELSE LET s2 == [s1 EXCEPT !.tvModelSuppressed = FALSE]
          IN IF s2.tvOn /\ s2.tvUiState = "3D MODEL" /\ s2.modelReady
             THEN drawModelFrameToTv(s2) ELSE s2

(* the overlay players' webkitbeginfullscreen / webkitendfullscreen listeners *)
onVideoWebkitBeginFullscreen(s) ==
  freezeTvVideoForOverlay([s EXCEPT !.overlayVideoIsFullscreen = TRUE])

onVideoWebkitEndFullscreen(s) ==
  LET s1 == [s EXCEPT !.overlayVideoIsFullscreen = FALSE,
                      !.tvVideoSuppressed = FALSE]
  IN IF s1.tvOn /\ s1.tvUiState = "VIDEO" /\ s1.videoReady
     THEN drawVideoFrameToTv(s1) ELSE s1

onModelWebkitBeginFullscreen(s) ==
  freezeTvModelForOverlay([s EXCEPT !.overlayModelIsFullscreen = TRUE])

onModelWebkitEndFullscreen(s) ==
  LET s1 == [s EXCEPT !.overlayModelIsFullscreen = FALSE,
                      !.tvModelSuppressed = FALSE]
  IN IF s1.tvOn /\ s1.tvUiState = "3D MODEL" /\ s1.modelReady
     THEN drawModelFrameToTv(s1) ELSE s1

(* ------------------------------------------------------------------ *)
(* Geometry of the draw routines: the destination rectangle handed to    *)
(* tvCtx.drawImage, in exact fractions [n / d] of a canvas pixel          *)
(*   srcSize  : width and height of the decoded image or video frame      *)
(*   drawRect : the rectangle of the last drawImage                       *)
(* ------------------------------------------------------------------ *)
RECURSIVE Gcd(_, _)
Gcd(a, b) == IF b = 0 THEN a ELSE Gcd(b, a % b)

Abs(a) == IF a < 0 THEN 0 - a ELSE a

Frac(n, d) ==
  LET g == Gcd(Abs(n), d) IN [n |-> n \div g, d |-> d \div g]

NoRect == [dx |-> Frac(0, 1), dy |-> Frac(0, 1),
           dw |-> Frac(0, 1), dh |-> Frac(0, 1)]

(* variant: contain instead of cover *)
videoDestRect_contain(vw, vh) ==
  LET w == TV_W
      h == TV_H
      iw == IF vw = 0 THEN 16 ELSE vw
      ih == IF vh = 0 THEN 9 ELSE vh
      byWidth == w * ih <= h * iw
      sn == IF byWidth THEN w ELSE h
      sd == IF byWidth THEN iw ELSE ih
  IN [dw |-> Frac(iw * sn * 102, sd * 100),
      dh |-> Frac(ih * sn * 102, sd * 100),
      dx |-> Frac(w * sd * 100 - iw * sn * 102, sd * 200),
      dy |-> Frac(h * sd * 100 - ih * sn * 102, sd * 200)]

(* scale = max(w / iw, h / ih) = sn / sd; overscan 1.02 = 102 / 100 *)
photoDestRect(iw, ih) ==
  LET w == TV_W
      h == TV_H
      byWidth == w * ih >= h * iw
      sn == IF byWidth THEN w ELSE h
      sd == IF byWidth THEN iw ELSE ih
  IN [dw |-> Frac(iw * sn * 102, sd * 100),
      dh |-> Frac(ih * sn * 102, sd * 100),
      dx |-> Frac(w * sd * 100 - iw * sn * 102, sd * 200),
      dy |-> Frac(h * sd * 100 - ih * sn * 102, sd * 200)]

videoDestRect(vw, vh) ==
  LET w == TV_W
      h == TV_H
      iw == IF vw = 0 THEN 16 ELSE vw
      ih == IF vh = 0 THEN 9 ELSE vh
      byWidth == w * ih >= h * iw
      sn == IF byWidth THEN w ELSE h
      sd == IF byWidth THEN iw ELSE ih
  IN [dw |-> Frac(iw * sn * 102, sd * 100),
      dh |-> Frac(ih * sn * 102, sd * 100),
      dx |-> Frac(w * sd * 100 - iw * sn * 102, sd * 200),
      dy |-> Frac(h * sd * 100 - ih * sn * 102, sd * 200)]

modelDestRect(vw, vh) ==
  LET w == TV_W
      h == TV_H
      iw == IF vw = 0 THEN 16 ELSE vw
      ih == IF vh = 0 THEN 9 ELSE vh
      byWidth == w * ih >= h * iw
      sn == IF byWidth THEN w ELSE h
      sd == IF byWidth THEN iw ELSE ih
  IN [dw |-> Frac(iw * sn * 102, sd * 100),
      dh |-> Frac(ih * sn * 102, sd * 100),
      dx |-> Frac(w * sd * 100 - iw * sn * 102, sd * 200),
      dy |-> Frac(h * sd * 100 - ih * sn * 102, sd * 200)]

(* ------------------------------------------------------------------ *)
(* Loading tracker: the assets counted by __beginAsset while the page    *)
(* loads; assetFinished is the 'finished' flag of each __endAsset        *)
(* ------------------------------------------------------------------ *)
AudioAssets == {"track0", "track1"}
TextureAssets == {"texture0", "texture1"}
NetworkAssets ==
  {"Main GLB", "Interactives GLB"} \cup AudioAssets \cup TextureAssets
Assets == {"Environment"} \cup NetworkAssets

maybeFinishLoader(s) ==
  IF s.loaderFinished THEN s
  ELSE IF s.loadDone >= s.loadTotal /\ s.loadTotal > 0
  THEN [s EXCEPT !.loaderFinished = TRUE]
  ELSE s

endAsset(s, a) ==
  IF s.assetFinished[a] THEN s
  ELSE maybeFinishLoader([s EXCEPT !.assetFinished[a] = TRUE,
                                   !.loadDone = @ + 1])

(* the timeout set by __maybeFinishLoader *)
hideLoader(s) == [s EXCEPT !.loaderHidden = TRUE]

(* ------------------------------------------------------------------ *)
(* Night vision: the lamp toggles it, the auto-gain adapts per sample    *)
(*   nightVisionPass : the shader pass of initPostFX, absent when the     *)
(*                     profile has no post-processing                     *)
(*   avgLuma, aeSamples : the last sampled luminance, the samples taken   *)
(* ------------------------------------------------------------------ *)
NoPass == [made |-> FALSE, uOn |-> 0, uGain |-> 0]

initPostFX(s) ==
  [s EXCEPT !.nightVisionPass = [made |-> TRUE, uOn |-> 0,
                                 uGain |-> AE_INIT_GAIN]]

Min(a, b) == IF a < b THEN a ELSE b
Max(a, b) == IF a > b THEN a ELSE b

(* variant: the upper clamp is twice aeMaxGain *)
desiredGain_wide(luma) ==
  LET q == (aeTargetLuma * 1000) \div (IF luma > AE_EPS THEN luma ELSE AE_EPS)
      top == (2 * aeMaxGain) \div GainPerMilli
      capped == IF q < top THEN q ELSE top
  IN IF capped * GainPerMilli > aeMinGain THEN capped * GainPerMilli
     ELSE aeMinGain

(* aeTargetLuma / max(eps, avgLuma), clamped to [aeMinGain, aeMaxGain]; the *)
(* quotient is taken to three decimals                                      *)
desiredGain(luma) ==
  LET q == (aeTargetLuma * 1000) \div Max(AE_EPS, luma)
  IN Max(aeMinGain, Min(aeMaxGain \div GainPerMilli, q) * GainPerMilli)

(* variant: the luminance is sampled on every frame *)
updateNightVisionAutoGain_everyFrame(s, dt, luma) ==
  IF ~s.nightVisionOn \/ ~s.nightVisionPass.made THEN s
  ELSE LET g == s.aeGain + (desiredGain(luma) - s.aeGain) \div AE_ADAPT_INV
       IN [s EXCEPT !.aeSampleAccum = 0, !.avgLuma = luma,
                    !.aeSamples = @ + 1,
                    !.aeGain = g, !.nightVisionPass.uGain = g]

(* variant: no smoothing, the gain jumps to the desired gain *)
updateNightVisionAutoGain_jump(s, dt, luma) ==
  IF ~s.nightVisionOn \/ ~s.nightVisionPass.made THEN s
  ELSE IF s.aeSampleAccum + dt < AE_SAMPLE_PERIOD
  THEN [s EXCEPT !.aeSampleAccum = @ + dt]
  ELSE [s EXCEPT !.aeSampleAccum = 0, !.avgLuma = luma,
                 !.aeSamples = @ + 1,
                 !.aeGain = desiredGain(luma),
                 !.nightVisionPass.uGain = desiredGain(luma)]

updateNightVisionAutoGain(s, dt, luma) ==
  IF ~s.nightVisionOn \/ ~s.nightVisionPass.made THEN s
  ELSE IF s.aeSampleAccum + dt < AE_SAMPLE_PERIOD
  THEN [s EXCEPT !.aeSampleAccum = @ + dt]
  ELSE LET g == s.aeGain + (desiredGain(luma) - s.aeGain) \div AE_ADAPT_INV
       IN [s EXCEPT !.aeSampleAccum = 0, !.avgLuma = luma,
                    !.aeSamples = @ + 1,
                    !.aeGain = g, !.nightVisionPass.uGain = g]

(* variant: only the shader's switch follows the lamp *)
setNightVision_uniformOnly(s, on) ==
  [s EXCEPT !.nightVisionPass.uOn = IF ~s.nightVisionPass.made THEN @
                                    ELSE IF on THEN 1 ELSE 0]

(* variant: enabling keeps the adapted gain *)
setNightVision_keepGain(s, on) ==
  [s EXCEPT !.nightVisionOn = on,
            !.nightVisionPass.uOn = IF ~s.nightVisionPass.made THEN @
                                    ELSE IF on THEN 1 ELSE 0]

setNightVision(s, on) ==
  LET s1 == [s EXCEPT !.nightVisionOn = on,
                      !.nightVisionPass.uOn =
                         IF ~s.nightVisionPass.made THEN @
                         ELSE IF on THEN 1 ELSE 0]
  IN IF on
     THEN [s1 EXCEPT !.aeGain = AE_INIT_GAIN, !.aeSampleAccum = 0,
                     !.nightVisionPass.uGain =
                        IF s.nightVisionPass.made THEN AE_INIT_GAIN ELSE @]
     ELSE s1

Buttons == {"power", "ok", "up", "down", "left", "right"}

(* ------------------------------------------------------------------ *)
(* Button press: pressState, per button.  t is counted in units of     *)
(* 1 / PRESS_LERP_DEN^MaxPressFrames, so that up to MaxPressFrames      *)
(* steps of the interpolation are exact.                                *)
(* ------------------------------------------------------------------ *)
RECURSIVE Pow(_, _)
Pow(b, n) == IF n = 0 THEN 1 ELSE b * Pow(b, n - 1)
PressOne == Pow(PRESS_LERP_DEN, MaxPressFrames)
NoPress == [t |-> 0, target |-> 0]

setPressTarget(s, mesh, pressed) ==
  [s EXCEPT !.pressState[mesh].target = IF pressed THEN 1 ELSE 0]

(* st.t += (st.target - st.t) * PRESS_LERP *)
updatePress(s) ==
  [s EXCEPT !.pressState =
     [b \in Buttons |->
        LET st == s.pressState[b]
        IN [st EXCEPT !.t = @ + ((st.target * PressOne - @) * PRESS_LERP_NUM)
                                  \div PRESS_LERP_DEN]]]

(* variant: a release leaves the targets as they are *)
clearAllButtonPresses_keep(s) == s

clearAllButtonPresses(s) ==
  [s EXCEPT !.pressState = [b \in Buttons |-> [s.pressState[b] EXCEPT !.target = 0]]]

(* ------------------------------------------------------------------ *)
(* Hover glow of the remote buttons: glowState, per button              *)
(* ------------------------------------------------------------------ *)
NoGlow == [target |-> 0, hoverStartMs |-> 0, forcedOff |-> FALSE]

(* variant: a hover that goes on is allowed to glow again *)
setGlowTarget_reglow(s, mesh, targetOn) ==
  IF targetOn
  THEN LET st == s.glowState[mesh]
           start == IF st.hoverStartMs = 0 THEN s.now ELSE st.hoverStartMs
       IN [s EXCEPT !.glowState[mesh] =
             [target |-> 1, hoverStartMs |-> start, forcedOff |-> FALSE]]
  ELSE [s EXCEPT !.glowState[mesh] = NoGlow]

setGlowTarget(s, mesh, targetOn) ==
  IF targetOn
  THEN LET st == s.glowState[mesh]
           start == IF st.hoverStartMs = 0 THEN s.now ELSE st.hoverStartMs
       IN IF st.forcedOff
          THEN [s EXCEPT !.glowState[mesh] =
                  [target |-> 0, hoverStartMs |-> start, forcedOff |-> TRUE]]
          ELSE IF s.now - start >= MAX_GLOW_HOVER_MS
          THEN [s EXCEPT !.glowState[mesh] =
                  [target |-> 0, hoverStartMs |-> start, forcedOff |-> TRUE]]
          ELSE [s EXCEPT !.glowState[mesh] =
                  [target |-> 1, hoverStartMs |-> start, forcedOff |-> FALSE]]
  ELSE [s EXCEPT !.glowState[mesh] = NoGlow]

clearAllButtonGlows(s) == [s EXCEPT !.glowState = [b \in Buttons |-> NoGlow]]

(* the cutoff of updateGlow; the fade of the emissive colour is not modelled *)
updateGlow(s) ==
  [s EXCEPT !.glowState =
     [b \in Buttons |->
        LET st == s.glowState[b]
        IN IF st.target = 1 /\ st.hoverStartMs # 0 /\ ~st.forcedOff
              /\ s.now - st.hoverStartMs >= MAX_GLOW_HOVER_MS
           THEN [st EXCEPT !.forcedOff = TRUE, !.target = 0]
           ELSE st]]

(* ------------------------------------------------------------------ *)
(* Hover hints: one key hovered at a time, its hint auto-hides          *)
(*   hintShown   : the hints that are displayed                         *)
(*   hintTimeout : the pending setTimeout of setHoverKey                *)
(* ------------------------------------------------------------------ *)
HoverKeys == Buttons \cup {"tv", "speaker"}
NoKey == "null"
NoTimeout == [on |-> FALSE, key |-> NoKey, due |-> 0]

hideAllHintsImmediate(s) == [s EXCEPT !.hintShown = {}]

showHintForKey(s, key) ==
  [hideAllHintsImmediate(s) EXCEPT !.hintShown = {key}]

(* variant: a key that is still hovered shows its hint again *)
setHoverKey_reshow(s, nextKey) ==
  IF nextKey = NoKey
  THEN [s EXCEPT !.currentHoverKey = NoKey, !.hintTimeout = NoTimeout,
                 !.hintShown = {}]
  ELSE [s EXCEPT !.currentHoverKey = nextKey,
                 !.hintShown = {nextKey},
                 !.hintSuppressed = [k \in HoverKeys |-> FALSE],
                 !.hintTimeout = [on |-> TRUE, key |-> nextKey,
                                  due |-> s.now + HINT_AUTOHIDE_MS]]

setHoverKey(s, nextKey) ==
  IF nextKey = s.currentHoverKey THEN s
  ELSE LET s1 == IF s.currentHoverKey # NoKey
                 THEN [s EXCEPT !.hintSuppressed[s.currentHoverKey] = FALSE]
                 ELSE s
           s2 == hideAllHintsImmediate(
                   [s1 EXCEPT !.currentHoverKey = nextKey,
                              !.hintTimeout = NoTimeout])
       IN IF nextKey = NoKey THEN s2
          ELSE IF s2.hintSuppressed[nextKey] THEN s2
          ELSE [showHintForKey(s2, nextKey) EXCEPT
                  !.hintTimeout = [on |-> TRUE, key |-> nextKey,
                                   due |-> s.now + HINT_AUTOHIDE_MS]]

(* the callback of the timeout set by setHoverKey(key) *)
onHintTimeout(s, key) ==
  LET s1 == [s EXCEPT !.hintTimeout = NoTimeout]
  IN IF s1.currentHoverKey = key
     THEN [hideAllHintsImmediate(s1) EXCEPT !.hintSuppressed[key] = TRUE]
     ELSE s1

(* ------------------------------------------------------------------ *)
(* Render loop: updateTv, then the throttled redraw of the ScreenBuffer *)
(* redraw: whether the redraw accumulator has passed 1/12 s this frame  *)
(* dt, luma: the frame time and the scene's average luminance, read by   *)
(* the night vision auto-gain only                                      *)
(* ------------------------------------------------------------------ *)
animateTv(s, redraw) ==
  LET s1 == updateTv(updateGlow(s))
  IN IF ~(s1.tvOn /\ redraw) THEN s1
     ELSE IF s1.tvUiState = "MENU" THEN drawTvMenu(s1)
     ELSE IF s1.tvUiState = "PHOTO"
     THEN LET s2 == IF s1.photoImage = NoImage /\ ~s1.photoLoading
                    THEN loadPhotoAt(s1, s1.photoIndex) ELSE s1
          IN IF s2.photoImage # NoImage
             THEN drawPhotoToTv(s2, s2.photoImage, TRUE) ELSE s2
     ELSE IF s1.tvUiState = "VIDEO"
     THEN IF s1.videoReady /\ ~s1.tvVideoSuppressed
          THEN drawVideoFrameToTv(s1) ELSE s1
     ELSE IF s1.tvUiState = "3D MODEL"
     THEN IF s1.modelReady /\ ~s1.tvModelSuppressed
          THEN drawModelToTv(s1) ELSE s1
     ELSE s1

animate(s, redraw, dt, luma) ==
  updateNightVisionAutoGain(animateTv(s, redraw), dt, luma)

(* ------------------------------------------------------------------ *)
(* Speaker playlist: one Audio element per track                       *)
(*   atEnd  : the playback position is at the end of the track         *)
(*   ending : the task that ends playback and fires 'ended' is queued  *)
(* ------------------------------------------------------------------ *)
NewAudio == [paused |-> TRUE, atEnd |-> FALSE, ending |-> FALSE]

currentAudio(s) == s.audioEls[s.trackIndex]

(* a.play() succeeds or is rejected by the browser; the catch sets nothing *)
playCurrent(s, allowed) ==
  IF allowed
  THEN [s EXCEPT !.audioEls[s.trackIndex] =
                   [@ EXCEPT !.paused = FALSE, !.atEnd = FALSE],
                 !.isPlaying = TRUE]
  ELSE s

togglePlayPause(s, allowed) ==
  IF ~s.isPlaying \/ currentAudio(s).paused
  THEN playCurrent(s, allowed)
  ELSE [s EXCEPT !.audioEls[s.trackIndex] = [@ EXCEPT !.paused = TRUE],
                 !.isPlaying = FALSE]

nextTrack(s, forcePlay, allowed) ==
  LET wasPlaying == s.isPlaying \/ forcePlay
      s1 == [s EXCEPT !.audioEls[s.trackIndex] =
                        [@ EXCEPT !.paused = TRUE, !.atEnd = FALSE],
                      !.trackIndex = (s.trackIndex + 1) % NTracks]
  IN IF wasPlaying THEN playCurrent(s1, allowed)
     ELSE [s1 EXCEPT !.isPlaying = FALSE]

(* variant: any track that ends advances the playlist while it plays *)
audioOnEnded_anyTrack(s, i, allowed) ==
  IF ~s.isPlaying THEN s
  ELSE nextTrack(s, FALSE, allowed)

(* the 'ended' listener of audioEls[i] *)
audioOnEnded(s, i, allowed) ==
  IF i # s.trackIndex THEN s
  ELSE IF ~s.isPlaying THEN s
  ELSE nextTrack(s, FALSE, allowed)

(* the browser's task at the end of a track: playback that is still at *)
(* the end is paused, then 'ended' is fired                            *)
audioEndTask(s, i, allowed) ==
  audioOnEnded([s EXCEPT !.audioEls[i] =
                  [@ EXCEPT !.paused = @ \/ s.audioEls[i].atEnd,
                            !.ending = FALSE]],
               i, allowed)

(* ------------------------------------------------------------------ *)
(* Link props: clicking one queues its URL, pointer-up opens it        *)
(* ------------------------------------------------------------------ *)
LinkProps == {"Dog_Tag1", "All_DVD", "DVD_on_Player1", "Book4", "Board2"}
NoUrl == "null"

onPointerCancel(s) == s

onPointerUp(s) ==
  IF s.pendingExternalUrl # NoUrl
  THEN [s EXCEPT !.pendingExternalUrl = NoUrl, !.externalOpens = @ + 1]
  ELSE s

(* ------------------------------------------------------------------ *)
(* Pointer handlers.  hit: the first raycast hit; uv: where a hit on    *)
(* the TV screen maps to on the canvas ("btn": inside the MENU button   *)
(* rectangle, "content": elsewhere, "none": the hit carries no UV)      *)
(* ------------------------------------------------------------------ *)
(* "speaker2": a click on the speaker within DOUBLE_CLICK_MS of the last *)
(* click, "speaker": a later one                                         *)
SpeakerHits == {"speaker", "speaker2"}
Hits == {"power", "ok", "up", "down", "left", "right", "screen",
         "lamp", "other", "nohit"} \cup SpeakerHits \cup LinkProps
UVs == {"none", "btn", "content"}

(* onPointerDown past its guards: the dispatch on the object that was hit *)
onPointerDownHit(s, hit, uv, allowed) ==
  IF hit = "lamp"
  THEN LET mood == (s.lampMood + 1) % 2
       IN setNightVision([s EXCEPT !.lampMood = mood], mood = 1)
  ELSE IF hit \in LinkProps THEN [s EXCEPT !.pendingExternalUrl = hit]
  ELSE IF s.tvOn /\ s.tvUiState = "PHOTO" /\ hit = "screen"
  THEN IF uv = "btn"
       THEN drawTvMenu([s EXCEPT !.tvUiState = "MENU", !.blinkT0 = s.now])
       ELSE openPhotoOverlay(s, s.currentPhotoUrl)
  ELSE IF s.tvOn /\ s.tvUiState = "VIDEO" /\ hit = "screen"
  THEN IF uv = "btn"
       THEN drawTvMenu([stopVideoCompletely(s) EXCEPT !.tvUiState = "MENU",
                                                      !.blinkT0 = s.now])
       ELSE openVideoOverlay(s, allowed)
  ELSE IF hit = "power" THEN setTvPower(s, ~s.tvOn)
  ELSE IF s.tvOn /\ s.tvUiState = "MENU" /\ hit = "down"
  THEN moveMenuSelection(s, 1)
  ELSE IF s.tvOn /\ s.tvUiState = "MENU" /\ hit = "up"
  THEN moveMenuSelection(s, -1)
  ELSE IF s.tvOn /\ s.tvUiState = "MENU" /\ hit = "ok"
  THEN confirmMenuSelection(s, allowed)
  ELSE IF s.tvOn /\ s.tvUiState = "PHOTO" /\ hit = "right" THEN nextPhoto(s, 1)
  ELSE IF s.tvOn /\ s.tvUiState = "PHOTO" /\ hit = "left" THEN nextPhoto(s, -1)
  ELSE IF s.tvOn /\ s.tvUiState = "VIDEO" /\ hit = "ok"
  THEN drawVideoFrameToTv(toggleVideoPlayPause(s, allowed))
  ELSE IF s.tvOn /\ s.tvUiState = "VIDEO" /\ hit = "right"
  THEN nextVideo(s, 1, allowed)
  ELSE IF s.tvOn /\ s.tvUiState = "VIDEO" /\ hit = "left"
  THEN nextVideo(s, -1, allowed)
  ELSE IF s.tvOn /\ s.tvUiState = "3D MODEL" /\ hit = "ok"
  THEN drawModelFrameToTv(toggleModelPlayPause(s, allowed))
  ELSE IF s.tvOn /\ s.tvUiState = "3D MODEL" /\ hit = "right"
  THEN nextModel(s, 1, allowed)
  ELSE IF s.tvOn /\ s.tvUiState = "3D MODEL" /\ hit = "left"
  THEN nextModel(s, -1, allowed)
  ELSE IF s.tvOn /\ s.tvUiState = "3D MODEL" /\ hit = "screen"
  THEN IF uv = "btn"
       THEN drawTvMenu([stopModelCompletely(s) EXCEPT !.tvUiState = "MENU",
                                                      !.blinkT0 = s.now])
       ELSE openModelOverlay(s, allowed)
  ELSE IF hit = "speaker2" THEN nextTrack(s, TRUE, allowed)
  ELSE IF hit = "speaker" THEN togglePlayPause(s, allowed)
  ELSE s

(* variant: the pointer still reaches the scene under an open overlay *)
onPointerDown_underOverlay(s, hit, uv, allowed) ==
  IF hit = "nohit" THEN s
  ELSE onPointerDownHit(s, hit, uv, allowed)

onPointerDown(s, hit, uv, allowed) ==
  IF hit = "nohit" THEN s
  ELSE IF s.overlayOpen \/ s.videoOverlayOpen \/ s.modelOverlayOpen THEN s
  ELSE onPointerDownHit(s, hit, uv, allowed)

onPointerMove(s, hit, uv) ==
  IF s.overlayOpen \/ s.videoOverlayOpen \/ s.modelOverlayOpen THEN s
  ELSE IF hit = "nohit" THEN s
  ELSE [s EXCEPT !.menuHover =
          s.tvOn /\ s.tvUiState \in {"PHOTO", "VIDEO", "3D MODEL"}
          /\ hit = "screen" /\ uv = "btn"]

(* The MENU-button hit tests of the screen branches, on the UV of the hit.  *)
(* uv.x is counted in units of 1 / TV_W and uv.y in units of 1 / TV_H, so   *)
(* that px = (uv.x * repeat.x + offset.x) * w is an integer.                *)

(* variant: the test with the v axis flipped *)
videoInMenuBtn_flipped(ux, uy) ==
  LET w == TV_W
      h == TV_H
      px == ux * tvTexRepeat.x + tvTexOffset.x * w
      py == h - (uy * tvTexRepeat.y + tvTexOffset.y * h)
      bx == w - TV_MENU_BTN.pad - TV_MENU_BTN.w
      by == TV_MENU_BTN.pad
  IN px >= bx /\ px <= bx + TV_MENU_BTN.w
     /\ py >= by /\ py <= by + TV_MENU_BTN.h

photoInMenuBtn(ux, uy) ==
  LET w == TV_W
      h == TV_H
      px == ux * tvTexRepeat.x + tvTexOffset.x * w
      py == uy * tvTexRepeat.y + tvTexOffset.y * h
      bx == w - TV_MENU_BTN.pad - TV_MENU_BTN.w
      by == TV_MENU_BTN.pad
  IN px >= bx /\ px <= bx + TV_MENU_BTN.w
     /\ py >= by /\ py <= by + TV_MENU_BTN.h

videoInMenuBtn(ux, uy) ==
  LET w == TV_W
      h == TV_H
      px == ux * tvTexRepeat.x + tvTexOffset.x * w
      py == uy * tvTexRepeat.y + tvTexOffset.y * h
      bx == w - TV_MENU_BTN.pad - TV_MENU_BTN.w
      by == TV_MENU_BTN.pad
  IN px >= bx /\ px <= bx + TV_MENU_BTN.w
     /\ py >= by /\ py <= by + TV_MENU_BTN.h

modelInMenuBtn(ux, uy) ==
  LET w == TV_W
      h == TV_H
      px == ux * tvTexRepeat.x + tvTexOffset.x * w
      py == uy * tvTexRepeat.y + tvTexOffset.y * h
      bx == w - TV_MENU_BTN.pad - TV_MENU_BTN.w
      by == TV_MENU_BTN.pad
  IN px >= bx /\ px <= bx + TV_MENU_BTN.w
     /\ py >= by /\ py <= by + TV_MENU_BTN.h

hoverInMenuBtn(ux, uy) ==
  LET w == TV_W
      h == TV_H
      px == ux * tvTexRepeat.x + tvTexOffset.x * w
      py == uy * tvTexRepeat.y + tvTexOffset.y * h
      bx == w - TV_MENU_BTN.pad - TV_MENU_BTN.w
      by == TV_MENU_BTN.pad
  IN px >= bx /\ px <= bx + TV_MENU_BTN.w
     /\ py >= by /\ py <= by + TV_MENU_BTN.h

(* pointerdown with the UV of the hit: each screen branch runs its own test *)
onPointerDownAt(s, hit, ux, uy, allowed) ==
  LET inMenuBtn == IF s.tvUiState = "PHOTO" THEN photoInMenuBtn(ux, uy)
                   ELSE IF s.tvUiState = "VIDEO" THEN videoInMenuBtn(ux, uy)
                   ELSE modelInMenuBtn(ux, uy)
  IN onPointerDown(s, hit,
                   IF hit # "screen" THEN "none"
                   ELSE IF inMenuBtn THEN "btn" ELSE "content",
                   allowed)

(* the hint and glow part of the pointermove listener *)
onPointerMoveHints(s, hit) ==
  IF s.overlayOpen \/ s.videoOverlayOpen \/ s.modelOverlayOpen
  THEN clearAllButtonGlows(setHoverKey(s, NoKey))
  ELSE IF hit = "nohit" THEN clearAllButtonGlows(setHoverKey(s, NoKey))
  ELSE LET hoveringTv == s.tvOn /\ s.tvUiState \in {"PHOTO", "VIDEO", "3D MODEL"}
                         /\ hit = "screen"
           hovering == [b \in Buttons |->
                          hit = b /\ (b = "power" \/ s.tvOn)]
           nextKey == IF hit \in SpeakerHits THEN "speaker"
                      ELSE IF hit \in Buttons /\ hovering[hit] THEN hit
                      ELSE IF hoveringTv THEN "tv"
                      ELSE NoKey
           g1 == setGlowTarget(s, "power", hovering["power"])
           g2 == setGlowTarget(g1, "ok", hovering["ok"])
           g3 == setGlowTarget(g2, "up", hovering["up"])
           g4 == setGlowTarget(g3, "down", hovering["down"])
           g5 == setGlowTarget(g4, "left", hovering["left"])
           g6 == setGlowTarget(g5, "right", hovering["right"])
       IN setHoverKey(g6, nextKey)

(* pointermove with the UV of the hit: the whole listener *)
onPointerMoveAt(s, hit, ux, uy) ==
  onPointerMoveHints(
    onPointerMove(s, hit,
                  IF hit # "screen" THEN "none"
                  ELSE IF hoverInMenuBtn(ux, uy) THEN "btn" ELSE "content"),
    hit)

(* the press animation target of onPointerDown: only the button clicked *)
armPress(s, hit) == IF hit \in Buttons THEN setPressTarget(s, hit, TRUE) ELSE s

(* variant: the press is armed before the overlay guard *)
onPointerDownPress_armFirst(s, hit, uv, allowed) ==
  IF hit \in {"nohit", "bars"} THEN s
  ELSE IF s.overlayOpen \/ s.videoOverlayOpen \/ s.modelOverlayOpen
  THEN armPress(s, hit)
  ELSE IF hit = "lamp" \/ hit \in LinkProps
  THEN onPointerDownHit(s, hit, uv, allowed)
  ELSE onPointerDownHit(armPress(s, hit), hit, uv, allowed)

(* pointer-down, pointer-up, pointer-cancel and pointer-move with what they *)
(* do to pressState; "bars": the pointer is in the black bars around the    *)
(* viewport                                                                 *)
onPointerDownPress(s, hit, uv, allowed) ==
  IF hit \in {"nohit", "bars"} THEN s
  ELSE IF s.overlayOpen \/ s.videoOverlayOpen \/ s.modelOverlayOpen THEN s
  ELSE IF hit = "lamp" \/ hit \in LinkProps
  THEN onPointerDownHit(s, hit, uv, allowed)
  ELSE onPointerDownHit(armPress(s, hit), hit, uv, allowed)

onPointerUpPress(s) == clearAllButtonPresses(onPointerUp(s))

onPointerCancelPress(s) == clearAllButtonPresses(onPointerCancel(s))

onPointerMovePress(s, hit, uv) ==
  IF s.overlayOpen \/ s.videoOverlayOpen \/ s.modelOverlayOpen \/ hit = "bars"
  THEN clearAllButtonPresses(
         onPointerMoveHints(onPointerMove(s, "nohit", "none"), "nohit"))
  ELSE onPointerMoveHints(onPointerMove(s, hit, uv), hit)

(* animate with the press interpolation *)
animatePress(s, redraw, dt, luma) == animate(updatePress(s), redraw, dt, luma)

(* the canvas' pointerleave listener *)
onPointerLeave(s) ==
  LET s1 == setHoverKey(s, NoKey)
      g1 == setGlowTarget(s1, "power", FALSE)
      g2 == setGlowTarget(g1, "ok", FALSE)
      g3 == setGlowTarget(g2, "up", FALSE)
      g4 == setGlowTarget(g3, "down", FALSE)
      g5 == setGlowTarget(g4, "left", FALSE)
  IN setGlowTarget(g5, "right", FALSE)

onPointerLeavePress(s) == onPointerLeave(clearAllButtonPresses(s))

(* ------------------------------------------------------------------ *)
(* Environment: what the browser may do to a media element             *)
(* ------------------------------------------------------------------ *)
ElDataArrives(e) ==
  [e EXCEPT !.loaded = TRUE,
            !.q = IF ~e.paused /\ e.prom > 0
                  THEN Append(Append(@, "loadeddata"), "resolve")
                  ELSE Append(@, "loadeddata"),
            !.prom = 0]

(* The user's plan for a behaviour: the menu items they will confirm.   *)
(* Every gallery is explored, one plan per behaviour.                    *)
Plans == {{"PHOTO"}, {"VIDEO"}, {"3D MODEL"}}

(* the pointer inputs that differ in effect: uv matters only on the screen, *)
(* the autoplay verdict only where play() can be reached                     *)
(* the speaker, the link props and the lamp share no state with the TV:     *)
(* their clicks are explored in SpecSpeaker, SpecPointer and SpecNightVision *)
PointerInputs ==
  {<<h, "none", TRUE>> :
      h \in Hits \ ({"screen", "lamp"} \cup SpeakerHits \cup LinkProps)}
  \cup {<<"screen", uv, TRUE>> : uv \in UVs}
  \cup {<<h, "none", FALSE>> : h \in {"ok", "left", "right"}}
  \cup {<<"screen", "content", FALSE>>}

InPlan(in) ==
  (in[1] = "ok" /\ tvOn /\ tvUiState = "MENU")
     => MENU_ITEMS[menuIndex + 1] \in plan

RECURSIVE SumTo(_, _)
SumTo(f, n) == IF n < 0 THEN 0 ELSE f[n] + SumTo(f, n - 1)

PendingPhotoLoads(s) == SumTo(s.photoReqs, NPhoto - 1)

Bounded(s) ==
  /\ PendingPhotoLoads(s) <= MaxPhotoLoads
  /\ s.externalOpens <= MaxOpens
  /\ Len(s.videoEl.q) <= MaxEvQ
  /\ Len(s.modelVideoEl.q) <= MaxEvQ

(* an event delivered to its handler *)
Step(s) == lastOp' = "event" /\ Bounded(s) /\ Commit(s)

(* a direct call of one operation of the TV; lastOp names the call *)
OpStep(s, name) ==
  /\ lastOp' = name
  /\ Bounded(s)
  /\ PendingPhotoLoads(s) <= MaxOpPhotoLoads
  /\ Commit(s)

(* ------------------------------------------------------------------ *)
(* Initial state: the script's top-level initialisers, scene loaded    *)
(* ------------------------------------------------------------------ *)
InitTv ==
  /\ now = 0
  /\ tvOn = FALSE
  /\ tvUiState = "MENU"
  /\ menuIndex = 0
  /\ blinkT0 = 0
  /\ menuHover = FALSE
  /\ tvAnim = NoAnim
  /\ tvBootT0 = 0
  /\ tvBooting = FALSE
  /\ texOn = TRUE
  /\ screen = ScrNone
  /\ photoIndex = 0
  /\ photoImage = NoImage
  /\ photoLoading = FALSE
  /\ currentPhotoUrl = NoIdx
  /\ photoReqs = [i \in 0..(NPhoto - 1) |-> 0]
  /\ videoIndex = 0
  /\ videoEl = NoEl
  /\ videoReady = FALSE
  /\ videoPlaying = FALSE
  /\ modelIndex = 0
  /\ modelVideoEl = NoEl
  /\ modelImageEl = NoImgEl
  /\ modelMediaType = "video"
  /\ modelReady = FALSE
  /\ modelPlaying = FALSE
  /\ currentModelUrl = NoIdx
  /\ modelImageLoading = FALSE
  /\ overlayOpen = FALSE
  /\ photoOverlayImg = NoIdx
  /\ videoOverlayOpen = FALSE
  /\ tvVideoSuppressed = FALSE
  /\ overlayVideoIsFullscreen = FALSE
  /\ videoOverlayEl = NoOverlayEl
  /\ modelOverlayOpen = FALSE
  /\ tvModelSuppressed = FALSE
  /\ overlayModelIsFullscreen = FALSE
  /\ modelOverlayEl = NoOverlayEl
  /\ modelOverlayImg = NoIdx
  /\ fsEl = "none"
  /\ trackIndex = 0
  /\ isPlaying = FALSE
  /\ audioEls = [i \in 0..(NTracks - 1) |-> NewAudio]
  /\ pendingExternalUrl = NoUrl
  /\ externalOpens = 0
  /\ glowState = [b \in Buttons |-> NoGlow]
  /\ currentHoverKey = NoKey
  /\ hintTimeout = NoTimeout
  /\ hintSuppressed = [k \in HoverKeys |-> FALSE]
  /\ hintShown = {}
  /\ ptrOver = "nohit"
  /\ ptrSince = 0
  /\ lampMood = 0
  /\ nightVisionOn = FALSE
  /\ nightVisionPass = NoPass
  /\ aeGain = AE_INIT_GAIN
  /\ aeSampleAccum = 0
  /\ avgLuma = 0
  /\ aeSamples = 0
  /\ loadTotal = Cardinality(Assets)
  /\ loadDone = 0
  /\ loaderFinished = FALSE
  /\ loaderHidden = FALSE
  /\ assetFinished = [a \in Assets |-> FALSE]
  /\ ptrUv = <<0, 0>>
  /\ srcSize = <<TV_W, TV_H>>
  /\ drawRect = NoRect
  /\ tvPower = 0
  /\ pressState = [b \in Buttons |-> NoPress]
  /\ pressFrames = 0
  /\ lastOp = "init"

Init == InitTv /\ plan \in Plans

(* ------------------------------------------------------------------ *)
(* Actions: one per event the page can receive                         *)
(* ------------------------------------------------------------------ *)
PointerDown ==
  \E in \in PointerInputs :
    /\ InPlan(in)
    /\ Step(onPointerDown(St, in[1], in[2], in[3]))

PointerMove ==
  \E in \in {x \in PointerInputs : x[3]} :
    Step(onPointerMove(St, in[1], in[2]))

PhotoLoaded ==
  \E i \in 0..(NPhoto - 1) :
    /\ photoReqs[i] > 0
    /\ Step(photoOnLoad([St EXCEPT !.photoReqs = [@ EXCEPT ![i] = @ - 1]], i))

PhotoFailed ==
  \E i \in 0..(NPhoto - 1) :
    /\ photoReqs[i] > 0
    /\ Step(photoOnError([St EXCEPT !.photoReqs = [@ EXCEPT ![i] = @ - 1]], i))

VideoDataArrives ==
  /\ videoEl.made /\ videoEl.src # NoIdx /\ ~videoEl.loaded
  /\ Step([St EXCEPT !.videoEl = ElDataArrives(@)])

VideoElEvent ==
  /\ videoEl.q # <<>>
  /\ Step(videoElOnEvent([St EXCEPT !.videoEl = [@ EXCEPT !.q = Tail(@)]],
                         Head(videoEl.q)))

ModelDataArrives ==
  /\ modelVideoEl.made /\ modelVideoEl.src # NoIdx /\ ~modelVideoEl.loaded
  /\ Step([St EXCEPT !.modelVideoEl = ElDataArrives(@)])

ModelVideoElEvent ==
  /\ modelVideoEl.q # <<>>
  /\ Step(modelVideoElOnEvent(
            [St EXCEPT !.modelVideoEl = [@ EXCEPT !.q = Tail(@)]],
            Head(modelVideoEl.q)))

ModelImageLoaded ==
  /\ modelImageEl.pending
  /\ Step(modelImageOnLoad(
            [St EXCEPT !.modelImageEl = [@ EXCEPT !.pending = FALSE,
                                                  !.complete = TRUE]]))

ModelImageFailed ==
  /\ modelImageEl.pending
  /\ Step(modelImageOnError(
            [St EXCEPT !.modelImageEl = [@ EXCEPT !.pending = FALSE]]))

(* the lamp is not clicked here, night vision stays off: animate reads     *)
(* neither the frame time nor the luminance                                *)
Animate == \E redraw \in BOOLEAN : Step(animate(St, redraw, FrameDt, 0))

ClosePhotoOverlay == overlayOpen /\ Step(closePhotoOverlay(St))

PhotoOverlayNav == overlayOpen /\ \E d \in Deltas : Step(photoOverlayNav(St, d))

CloseVideoOverlay ==
  /\ videoOverlayOpen /\ fsEl = "none"
  /\ \E allowed \in BOOLEAN : Step(closeVideoOverlay(St, allowed))

OverlayNextVideo ==
  /\ videoOverlayOpen /\ fsEl = "none"
  /\ \E d \in Deltas, allowed \in BOOLEAN : Step(overlayNextVideo(St, d, allowed))

(* the user pauses / resumes the overlay player with its native controls *)
VideoOverlayControls ==
  /\ videoOverlayOpen
  /\ Step([St EXCEPT !.videoOverlayEl = [@ EXCEPT !.paused = ~@]])

CloseModelOverlay ==
  /\ modelOverlayOpen /\ fsEl = "none"
  /\ \E allowed \in BOOLEAN : Step(closeModelOverlay(St, allowed))

OverlayNextModel ==
  /\ modelOverlayOpen /\ fsEl = "none"
  /\ \E d \in Deltas, allowed \in BOOLEAN : Step(overlayNextModel(St, d, allowed))

ModelOverlayControls ==
  /\ modelOverlayOpen /\ modelMediaType = "video"
  /\ Step([St EXCEPT !.modelOverlayEl = [@ EXCEPT !.paused = ~@]])

(* native fullscreen of an overlay player: the document-level event runs   *)
(* both listeners, the iOS element-level event only the element's own      *)
FullscreenEnter ==
  /\ fsEl = "none"
  /\ \E kind \in {"video", "model"}, ios \in BOOLEAN :
       /\ kind = "video" => videoOverlayOpen
       /\ kind = "model" => modelOverlayOpen /\ modelMediaType = "video"
       /\ IF ios
          THEN Step(IF kind = "video"
                    THEN onVideoWebkitBeginFullscreen([St EXCEPT !.fsEl = "iosvideo"])
                    ELSE onModelWebkitBeginFullscreen([St EXCEPT !.fsEl = "iosmodel"]))
          ELSE Step(onModelFullscreenChange(
                      onVideoFullscreenChange([St EXCEPT !.fsEl = kind])))

FullscreenExit ==
  /\ fsEl # "none"
  /\ IF fsEl = "iosvideo"
     THEN Step(onVideoWebkitEndFullscreen([St EXCEPT !.fsEl = "none"]))
     ELSE IF fsEl = "iosmodel"
     THEN Step(onModelWebkitEndFullscreen([St EXCEPT !.fsEl = "none"]))
     ELSE Step(onModelFullscreenChange(
                 onVideoFullscreenChange([St EXCEPT !.fsEl = "none"])))

Next ==
  \/ PointerDown
  \/ PointerMove
  \/ PhotoLoaded
  \/ PhotoFailed
  \/ VideoDataArrives
  \/ VideoElEvent
  \/ ModelDataArrives
  \/ ModelVideoElEvent
  \/ ModelImageLoaded
  \/ ModelImageFailed
  \/ Animate
  \/ ClosePhotoOverlay
  \/ PhotoOverlayNav
  \/ CloseVideoOverlay
  \/ OverlayNextVideo
  \/ VideoOverlayControls
  \/ CloseModelOverlay
  \/ OverlayNextModel
  \/ ModelOverlayControls
  \/ FullscreenEnter
  \/ FullscreenExit

Spec == Init /\ [][Next]_vars


(* ------------------------------------------------------------------ *)
(* The operations of the TV called directly, in any state              *)
(* ------------------------------------------------------------------ *)
OpSetTvPower(on) ==
  OpStep(setTvPower(St, on), IF on THEN "setTvPower(true)" ELSE "setTvPower(false)")

OpMoveMenuSelection(d) ==
  OpStep(moveMenuSelection(St, d),
         IF d = 1 THEN "moveMenuSelection(+1)" ELSE "moveMenuSelection(-1)")

OpConfirmMenuSelection ==
  /\ (tvOn /\ tvUiState = "MENU") => MENU_ITEMS[menuIndex + 1] \in plan
  /\ \E allowed \in BOOLEAN :
       OpStep(confirmMenuSelection(St, allowed), "confirmMenuSelection")

OpNextPhoto(d) == OpStep(nextPhoto(St, d), "nextPhoto")

OpNextVideo(d) ==
  \E allowed \in BOOLEAN : OpStep(nextVideo(St, d, allowed), "nextVideo")

OpNextModel(d) ==
  \E allowed \in BOOLEAN : OpStep(nextModel(St, d, allowed), "nextModel")

(* a click on the in-canvas MENU button (pointer-down on the screen, UV in the button) *)
OpMenuButtonClick == OpStep(onPointerDown(St, "screen", "btn", TRUE), "menuButton")

(* a click on one button of the remote *)
RemoteButtons == {"power", "ok", "up", "down", "left", "right"}

OpRemoteClick ==
  \E hit \in RemoteButtons, allowed \in BOOLEAN :
    /\ InPlan(<<hit, "none", allowed>>)
    /\ OpStep(onPointerDown(St, hit, "none", allowed), "remote")

OpSetPower == \E on \in BOOLEAN : OpSetTvPower(on)

OpMove == \E d \in Deltas : OpMoveMenuSelection(d)

OpNavigate ==
  \E d \in Deltas : OpNextPhoto(d) \/ OpNextVideo(d) \/ OpNextModel(d)

OpTick ==
  /\ now + TickMs <= MaxTicks * TickMs
  /\ OpStep([St EXCEPT !.now = @ + TickMs], "tick")

OpAnimate ==
  \E redraw \in BOOLEAN : OpStep(animate(St, redraw, FrameDt, 0), "animate")

(* operations with the clock running: power, menu, return to the menu *)
NextClock ==
  \/ OpSetPower
  \/ OpMove
  \/ OpConfirmMenuSelection
  \/ OpMenuButtonClick
  \/ OpAnimate
  \/ OpTick

SpecClock == Init /\ [][NextClock]_vars

(* operations and load completions, no clock *)
NextOps ==
  \/ OpSetPower
  \/ OpMove
  \/ OpConfirmMenuSelection
  \/ OpMenuButtonClick
  \/ OpNavigate
  \/ OpRemoteClick
  \/ PhotoLoaded
  \/ PhotoFailed
  \/ VideoDataArrives
  \/ VideoElEvent
  \/ ModelDataArrives
  \/ ModelVideoElEvent
  \/ ModelImageLoaded
  \/ ModelImageFailed

SpecOps == Init /\ [][NextOps]_vars

(* one visit that goes through the PHOTO and the VIDEO gallery: the remote, *)
(* the in-canvas MENU button, the render loop and the load completions     *)
InitModes == InitTv /\ plan = {"PHOTO", "VIDEO"}

NextModes ==
  \/ OpRemoteClick
  \/ OpMenuButtonClick
  \/ OpAnimate
  \/ PhotoLoaded
  \/ VideoDataArrives
  \/ VideoElEvent

SpecModes == InitModes /\ [][NextModes]_vars

(* the speaker playlist next to the VIDEO gallery: clicks on the speaker   *)
(* and on the remote, tracks reaching their end, media element events      *)
SpeakerClick ==
  \E hit \in SpeakerHits, allowed \in BOOLEAN :
    OpStep(onPointerDown(St, hit, "none", allowed), "speaker")

(* playback of track i reaches the end of the track *)
TrackReachesEnd ==
  \E i \in 0..(NTracks - 1) :
    /\ ~audioEls[i].paused /\ ~audioEls[i].ending
    /\ OpStep([St EXCEPT !.audioEls[i] =
                 [@ EXCEPT !.atEnd = TRUE, !.ending = TRUE]], "trackEnd")

AudioEndedAt(i, allowed) ==
  audioEls[i].ending /\ OpStep(audioEndTask(St, i, allowed), "ended")

AudioEnded == \E i \in 0..(NTracks - 1), allowed \in BOOLEAN : AudioEndedAt(i, allowed)

InitSpeaker == InitTv /\ plan = {"VIDEO"}

NextSpeaker ==
  \/ SpeakerClick
  \/ TrackReachesEnd
  \/ AudioEnded
  \/ OpRemoteClick
  \/ VideoDataArrives
  \/ VideoElEvent

SpecSpeaker == InitSpeaker /\ [][NextSpeaker]_vars

(* the same with frames that keep coming (requestAnimationFrame re-arms  *)
(* itself in animate); no load completion is ever owed by the network    *)
SpecModesLive == InitModes /\ [][NextModes]_vars /\ WF_vars(OpAnimate)

(* the pointer on the TV screen: it moves to a point of the screen and   *)
(* clicks where it is; power, menu selection and OK bring up the modes   *)
ScreenUs == {1663, 1664, 1824, 1884, 1885}
ScreenVs == {35, 36, 54, 122, 123}

ScreenMove ==
  \E ux \in ScreenUs, uy \in ScreenVs :
    OpStep(onPointerMoveAt([St EXCEPT !.ptrOver = "screen",
                                      !.ptrSince = IF ptrOver = "screen"
                                                   THEN @ ELSE now,
                                      !.ptrUv = <<ux, uy>>],
                           "screen", ux, uy), "screenMove")

ScreenClick ==
  \E allowed \in BOOLEAN :
    /\ ptrOver = "screen"
    /\ OpStep(onPointerDownAt(St, "screen", ptrUv[1], ptrUv[2], allowed),
              "screenClick")

NextScreen ==
  \/ OpSetPower
  \/ OpMove
  \/ OpConfirmMenuSelection
  \/ ScreenMove
  \/ ScreenClick

SpecScreen == Init /\ [][NextScreen]_vars

(* drawing: a source of some size is decoded and one of the three draw   *)
(* routines computes its destination rectangle                           *)
SrcWidths == {16, 640, 800, 1080, TV_W}
SrcHeights == {9, 480, 600, TV_H, 1920}

SourceDecoded ==
  \E iw \in SrcWidths, ih \in SrcHeights :
    OpStep([St EXCEPT !.srcSize = <<iw, ih>>], "source")

DrawPhotoRect ==
  OpStep([St EXCEPT !.drawRect = photoDestRect(srcSize[1], srcSize[2])],
         "drawPhotoToTv")

DrawVideoRect ==
  OpStep([St EXCEPT !.drawRect = videoDestRect(srcSize[1], srcSize[2])],
         "drawVideoFrameToTv")

DrawModelRect ==
  OpStep([St EXCEPT !.drawRect = modelDestRect(srcSize[1], srcSize[2])],
         "drawModelFrameToTv")

NextDraw ==
  \/ SourceDecoded
  \/ DrawPhotoRect
  \/ DrawVideoRect
  \/ DrawModelRect

SpecDraw == Init /\ [][NextDraw]_vars

(* loading: the frame after the page's script ends the Environment asset, *)
(* the network settles an asset by a load or an error event or leaves it   *)
(* pending, the timeout of the finished loader hides it; only the frame    *)
(* and the timeout are sure to come                                        *)
EnvironmentFrame ==
  ~assetFinished["Environment"] /\ OpStep(endAsset(St, "Environment"), "frame")

AssetSettles ==
  \E a \in NetworkAssets :
    ~assetFinished[a] /\ OpStep(endAsset(St, a), "assetSettles")

(* a second event of an asset that has settled: canplaythrough after       *)
(* loadedmetadata                                                          *)
AssetEventAgain ==
  \E a \in AudioAssets :
    assetFinished[a] /\ OpStep(endAsset(St, a), "assetEventAgain")

HideLoaderTimeout ==
  loaderFinished /\ ~loaderHidden /\ OpStep(hideLoader(St), "hideLoader")

NextLoader ==
  \/ EnvironmentFrame
  \/ AssetSettles
  \/ AssetEventAgain
  \/ HideLoaderTimeout

SpecLoader ==
  /\ Init /\ [][NextLoader]_vars
  /\ WF_vars(EnvironmentFrame) /\ WF_vars(HideLoaderTimeout)

(* night vision: the page creates the shader pass while it loads, unless the *)
(* profile has no post-processing; the lamp is clicked; frames of varying     *)
(* length sample the scene's luminance                                        *)
FrameDts == {FrameDt, 50}
Lumas == {0, 200, 900, 6000}

PostFXInit == lastOp = "init" /\ OpStep(initPostFX(St), "initPostFX")

LampClick == OpStep(onPointerDown(St, "lamp", "none", TRUE), "lampClick")

NightVisionFrame ==
  \E dt \in FrameDts, luma \in Lumas :
    /\ aeSamples < MaxAeSamples
    /\ OpStep(animate(St, FALSE, dt, luma), "animate")

NextNightVision ==
  \/ PostFXInit
  \/ LampClick
  \/ NightVisionFrame

SpecNightVision == Init /\ [][NextNightVision]_vars

(* hovering: the pointer moves over the scene or rests, frames are drawn,  *)
(* the hint timeout fires when due, the power button is clicked            *)
HoverHits == {"nohit", "power", "ok", "up", "speaker", "other"}

HoverMove ==
  \E hit \in HoverHits :
    /\ now > 0
    /\ OpStep(onPointerMoveHints(
                onPointerMove([St EXCEPT !.ptrOver = hit,
                                         !.ptrSince = IF hit = ptrOver
                                                      THEN @ ELSE now],
                              hit, "none"),
                hit), "pointermove")

HoverLeave ==
  /\ ptrOver # "nohit"
  /\ OpStep(onPointerLeave([St EXCEPT !.ptrOver = "nohit", !.ptrSince = now]),
            "pointerleave")

HoverPowerClick ==
  /\ ptrOver = "power"
  /\ OpStep(onPointerDown(St, "power", "none", TRUE), "pointerdown")

HintTimeoutFires ==
  /\ hintTimeout.on /\ now >= hintTimeout.due
  /\ OpStep(onHintTimeout(St, hintTimeout.key), "hintTimeout")

(* time passes, up to the instant at which the pending timeout is due; the *)
(* timeout runs before the clock moves on                                  *)
HoverTick ==
  /\ now + HoverTickMs <= MaxHoverMs
  /\ hintTimeout.on => now < hintTimeout.due
  /\ OpStep([St EXCEPT !.now =
               IF hintTimeout.on /\ hintTimeout.due < now + HoverTickMs
               THEN hintTimeout.due ELSE now + HoverTickMs], "tick")

NextHover ==
  \/ HoverMove
  \/ HoverLeave
  \/ HoverPowerClick
  \/ HintTimeoutFires
  \/ OpAnimate
  \/ HoverTick

SpecHover == Init /\ [][NextHover]_vars

(* pointer events over the scene: pointer-down on the canvas, pointer-up   *)
(* and pointer-cancel on the window while a pointer is down                *)
PointerIsDown == lastOp \in {"pointerdown", "pointerdown:link"}

PtrDown ==
  \E hit \in Hits \ SpeakerHits, uv \in {"btn", "content"} :
    /\ ~PointerIsDown
    /\ InPlan(<<hit, uv, TRUE>>)
    /\ OpStep(onPointerDown(St, hit, uv, TRUE),
              IF hit \in LinkProps THEN "pointerdown:link" ELSE "pointerdown")

PtrUp == PointerIsDown /\ OpStep(onPointerUp(St), "pointerup")

PtrCancel == PointerIsDown /\ OpStep(onPointerCancel(St), "pointercancel")

NextPointer ==
  \/ PtrDown
  \/ PtrUp
  \/ PtrCancel

SpecPointer == Init /\ [][NextPointer]_vars

(* browsing the VIDEO and 3D MODEL galleries with the remote: every click  *)
(* is a user gesture, play() is allowed; the media elements' data and      *)
(* events arrive in between                                                *)
NavPowerOn == ~tvOn /\ OpSetTvPower(TRUE)

NavConfirm ==
  /\ tvOn /\ tvUiState = "MENU" /\ MENU_ITEMS[menuIndex + 1] \in plan
  /\ OpStep(confirmMenuSelection(St, TRUE), "confirmMenuSelection")

NavOk ==
  /\ tvOn /\ tvUiState \in {"VIDEO", "3D MODEL"}
  /\ OpStep(onPointerDown(St, "ok", "none", TRUE), "ok")

NavNextVideo ==
  \E d \in Deltas :
    tvOn /\ tvUiState = "VIDEO" /\ OpStep(nextVideo(St, d, TRUE), "nextVideo")

NavNextModel ==
  \E d \in Deltas :
    tvOn /\ tvUiState = "3D MODEL" /\ OpStep(nextModel(St, d, TRUE), "nextModel")

NextNav ==
  \/ NavPowerOn
  \/ OpMove
  \/ NavConfirm
  \/ NavOk
  \/ NavNextVideo
  \/ NavNextModel
  \/ VideoDataArrives
  \/ VideoElEvent
  \/ ModelDataArrives
  \/ ModelVideoElEvent
  \/ ModelImageLoaded

SpecNav == Init /\ [][NextNav]_vars

(* the lamp next to the TV: clicks on the lamp, on the remote and on the   *)
(* screen, the overlays' close buttons, frames that sample the luminance   *)
ScreenContentClick ==
  \E allowed \in BOOLEAN :
    OpStep(onPointerDown(St, "screen", "content", allowed), "screenClick")

(* a frame a whole sample period after the last one *)
LampFrame ==
  \E luma \in Lumas :
    /\ aeSamples < MaxLampSamples
    /\ OpStep(animate(St, FALSE, AE_SAMPLE_PERIOD, luma), "animate")

NextLamp ==
  \/ PostFXInit
  \/ LampClick
  \/ OpRemoteClick
  \/ OpMenuButtonClick
  \/ ScreenContentClick
  \/ ClosePhotoOverlay
  \/ CloseVideoOverlay
  \/ CloseModelOverlay
  \/ LampFrame

SpecLamp == Init /\ [][NextLamp]_vars

(* pressing the remote: pointer-down on the canvas, pointer-up and         *)
(* pointer-cancel on the window, pointer-move and pointer-leave on the      *)
(* canvas, frames; lastOp names the button a pointer-down hit first         *)
PressHits == {"power", "ok", "screen", "Book4", "other", "nohit"}
PressMoveHits == {"other", "bars"}

DownOn(hit) ==
  CASE hit = "power" -> "pointerdown:power"
    [] hit = "ok" -> "pointerdown:ok"
    [] hit = "up" -> "pointerdown:up"
    [] hit = "down" -> "pointerdown:down"
    [] hit = "left" -> "pointerdown:left"
    [] hit = "right" -> "pointerdown:right"
    [] OTHER -> "pointerdown"

PressDown ==
  \E hit \in PressHits :
    /\ InPlan(<<hit, "content", TRUE>>)
    /\ OpStep(onPointerDownPress(St, hit, "content", TRUE), DownOn(hit))

PressUp == OpStep(onPointerUpPress(St), "pointerup")

PressCancel == OpStep(onPointerCancelPress(St), "pointercancel")

PressLeave == OpStep(onPointerLeavePress(St), "pointerleave")

PressMove ==
  \E hit \in PressMoveHits :
    OpStep(onPointerMovePress(St, hit, "none"), "pointermove")

PressFrame ==
  /\ pressFrames < MaxPressFrames
  /\ \E redraw \in BOOLEAN :
       OpStep([animatePress(St, redraw, FrameDt, 0) EXCEPT !.pressFrames = @ + 1],
              "animate")

NextPress ==
  \/ PressDown
  \/ PressUp
  \/ PressCancel
  \/ PressLeave
  \/ PressMove
  \/ PressFrame
  \/ ClosePhotoOverlay

SpecPress == Init /\ [][NextPress]_vars

(* pointer-downs on the canvas with and without an overlay open: the       *)
(* remote, the screen, the lamp, a link prop, the room; the overlays'       *)
(* close buttons; pointer-up                                                *)
GuardHits == {"power", "ok", "screen", "lamp", "Book4", "other"}
DownOps == {DownOn(h) : h \in Hits}

GuardDown ==
  \E hit \in GuardHits :
    /\ InPlan(<<hit, "content", TRUE>>)
    /\ OpStep(onPointerDownPress(St, hit, "content", TRUE), DownOn(hit))

NextOverlayGuard ==
  \/ GuardDown
  \/ PressUp
  \/ OpMove
  \/ ClosePhotoOverlay
  \/ CloseVideoOverlay
  \/ CloseModelOverlay

SpecOverlayGuard == Init /\ [][NextOverlayGuard]_vars

(* ------------------------------------------------------------------ *)
(* Properties                                                          *)
(* ------------------------------------------------------------------ *)
(* the logical TV state: OFF when tvOn is false, otherwise tvUiState *)
TvState == IF tvOn THEN tvUiState ELSE "OFF"
TvStateNext == IF tvOn' THEN tvUiState' ELSE "OFF"

MediaModes == {"PHOTO", "VIDEO", "3D MODEL"}

PowerClick == \E a \in BOOLEAN : Commit(onPointerDown(St, "power", "none", a))
OkClick == \E a \in BOOLEAN : Commit(onPointerDown(St, "ok", "none", a))
MenuButtonClick == \E a \in BOOLEAN : Commit(onPointerDown(St, "screen", "btn", a))

(* C1: the logical TV state changes only by a power-button click (OFF to
   MENU, any on-state to OFF), by OK in MENU (to the mode of the selected
   item) or by a click on the in-canvas MENU button in a media mode (to
   MENU); every other event leaves it alone. *)
C1_StateChangesOnlyByInput ==
  [][TvStateNext # TvState =>
       \/ TvState = "OFF" /\ TvStateNext = "MENU" /\ PowerClick
       \/ TvState # "OFF" /\ TvStateNext = "OFF" /\ PowerClick
       \/ TvState = "MENU" /\ TvStateNext = MENU_ITEMS[menuIndex + 1] /\ OkClick
       \/ TvState \in MediaModes /\ TvStateNext = "MENU" /\ MenuButtonClick]_vars

(* a media mode entered from the menu, with a load callback delivered since *)
C1_Witness ==
  tvOn /\ tvUiState \in MediaModes /\ lastOp = "event"
    /\ (photoImage # NoImage \/ videoReady \/ modelReady)

(* the onLoad callback of a pending request for PHOTO_PATHS[i] is delivered *)
PhotoLoadDelivered(i) ==
  /\ photoReqs[i] > 0
  /\ Commit(photoOnLoad([St EXCEPT !.photoReqs = [@ EXCEPT ![i] = @ - 1]], i))

(* C2: when a second photo load was issued before an earlier one completed
   (also across PHOTO -> MENU -> OK -> PHOTO), the completion of the earlier
   request, which is for another index than the current one, overwrites
   neither the image held as current nor what is displayed. *)
C2_StaleLoadNeverOverwrites ==
  [][\A i \in 0..(NPhoto - 1) :
       (tvOn /\ tvUiState = "PHOTO" /\ i # photoIndex /\ PhotoLoadDelivered(i))
         => photoImage' = photoImage /\ screen' = screen]_vars

(* the adapter whose renderer produced the content of a ScreenBuffer value *)
ScreenOwner(scr) ==
  IF scr.k = "menu" THEN "MENU"
  ELSE IF scr.k \in {"image", "frame"}
  THEN (IF scr.g = "P" THEN "PHOTO" ELSE IF scr.g = "V" THEN "VIDEO" ELSE "3D MODEL")
  ELSE "blank"

(* C3: no adapter draws into the ScreenBuffer while the TV state is not its
   own: whenever the buffer's content changes, the new content is blank or
   was drawn by the renderer of the state the TV is then in (a late load
   callback included). *)
C3_OnlyOwnerDraws ==
  [][screen' # screen => ScreenOwner(screen') \in {"blank", TvStateNext}]_vars

(* setTvPower(false) has run and its animation has not completed *)
PoweringOff == ~tvOn /\ tvAnim.active /\ tvAnim.to = 0

(* C4: from setTvPower(false) on, until the power animation completes and
   whatever completion events are delivered meanwhile, nothing plays, the
   ScreenBuffer is blank and the screen texture is detached. *)
C4_OffStaysOff ==
  PoweringOff =>
    ~videoPlaying /\ ~modelPlaying /\ screen = ScrBlack /\ ~texOn

(* one load-completion event (success or failure) is delivered *)
LoadCompletion ==
  \/ PhotoLoaded
  \/ PhotoFailed
  \/ videoEl.q # <<>> /\ Head(videoEl.q) = "loadeddata" /\ VideoElEvent
  \/ modelVideoEl.q # <<>> /\ Head(modelVideoEl.q) = "loadeddata" /\ ModelVideoElEvent
  \/ ModelImageLoaded
  \/ ModelImageFailed

(* C5: a load-completion event delivered while the TV is OFF changes
   neither the readiness flags, nor the photo image held, nor the
   ScreenBuffer. *)
C5_OffIgnoresLoadCompletions ==
  [][(~tvOn /\ LoadCompletion)
       => UNCHANGED <<videoReady, modelReady, photoImage, screen>>]_vars

(* the part of the state an input that is invalid for the current state must keep *)
NavState == <<tvOn, tvUiState, menuIndex, photoIndex, videoIndex, modelIndex>>

RemoteClick(hit) ==
  \E a \in BOOLEAN : OpStep(onPointerDown(St, hit, "none", a), "remote")

(* an input that is not valid in the current TV state is delivered *)
InvalidInput ==
  \/ TvState # "MENU" /\ OpMove
  \/ TvState # "MENU" /\ OpConfirmMenuSelection
  \/ TvState # "PHOTO" /\ \E d \in Deltas : OpNextPhoto(d)
  \/ TvState # "VIDEO" /\ \E d \in Deltas : OpNextVideo(d)
  \/ TvState # "3D MODEL" /\ \E d \in Deltas : OpNextModel(d)
  \/ TvState = "OFF" /\ \E hit \in RemoteButtons \ {"power"} : RemoteClick(hit)
  \/ TvState # "MENU" /\ \E hit \in {"up", "down", "ok"} : RemoteClick(hit)
  \/ TvState = "MENU" /\ \E hit \in {"left", "right"} : RemoteClick(hit)

(* C6: an input that is invalid for the current state (up/down or confirm
   outside MENU, left/right of a mode that is not the current one, any
   remote button but power while OFF) changes neither the TV state, nor
   the menu index, nor any of the three media indexes. *)
C6_InvalidInputIsNoOp == [][InvalidInput => UNCHANGED NavState]_vars

(* up/down was called in PHOTO mode with the selection left on PHOTO *)
C6_Witness ==
  lastOp = "moveMenuSelection(+1)" /\ tvOn /\ tvUiState = "PHOTO" /\ menuIndex = 0

(* C7: setTvPower(x) called while the TV already has power state x changes
   nothing: no new animation starts, the start time of an animation in
   progress and the boot sequence stay as they are. *)
C7_SetPowerSameStateIsNoOp ==
  [][\A on \in BOOLEAN : (on = tvOn /\ OpSetTvPower(on)) => UNCHANGED St]_vars

(* setTvPower(true) was just called, later than the power-on whose
   animation and boot sequence are still running *)
C7_Witness ==
  /\ lastOp = "setTvPower(true)" /\ tvOn
  /\ tvAnim.active /\ tvAnim.to = 1 /\ tvAnim.t0 < now
  /\ tvBooting /\ tvBootT0 < now

(* the step enters MENU from another state *)
EnteringMenu == TvState # "MENU" /\ TvStateNext = "MENU"

(* C8 as stated: every entry into MENU, by power-on or by the in-canvas
   MENU button, resets menuIndex to 0 and blinkT0 to the time of entry. *)
C8_EntryResetsIndexAndBlink ==
  [][EnteringMenu => menuIndex' = 0 /\ blinkT0' = now']_vars

(* C8 amended: every entry into MENU resets blinkT0 to the time of entry;
   power-on also resets menuIndex to 0, while the in-canvas MENU button
   leaves menuIndex on the item of the mode being left. *)
C8_EntryResetsBlink ==
  [][EnteringMenu =>
       /\ blinkT0' = now'
       /\ TvState = "OFF" => menuIndex' = 0
       /\ TvState \in MediaModes =>
            menuIndex' = menuIndex /\ MENU_ITEMS[menuIndex' + 1] = TvState]_vars

(* MENU was just entered by the MENU button, after time has passed, with
   the selection still on the mode that was left *)
C8_Witness ==
  /\ lastOp = "menuButton" /\ tvOn /\ tvUiState = "MENU"
  /\ menuIndex # 0 /\ blinkT0 = now /\ now > 0

(* (i + d) mod n for a step d of one up or down *)
WrapIdx(i, d, n) == IF i + d < 0 THEN n - 1 ELSE IF i + d > n - 1 THEN 0 ELSE i + d

(* C9: in MENU, moveMenuSelection(delta) sets menuIndex to
   (menuIndex + delta) mod 3 (0 with -1 gives 2, 2 with +1 gives 0) and
   resets blinkT0 to the time of the call; menuIndex always stays in 0..2. *)
C9_MoveSelectionWraps ==
  /\ [](menuIndex \in 0..2)
  /\ [][\A d \in Deltas :
          (tvOn /\ tvUiState = "MENU" /\ OpMoveMenuSelection(d))
            => menuIndex' = WrapIdx(menuIndex, d, 3) /\ blinkT0' = now']_vars

(* up was just pressed on the first item, later than the menu was entered *)
C9_Witness ==
  /\ lastOp = "moveMenuSelection(-1)" /\ tvOn /\ tvUiState = "MENU"
  /\ menuIndex = 2 /\ blinkT0 = now /\ now > 0

(* a reload of the asset at the new index has been started *)
PhotoReloadStarted ==
  /\ photoLoading' /\ currentPhotoUrl' = photoIndex'
  /\ photoReqs'[photoIndex'] = photoReqs[photoIndex'] + 1

VideoReloadStarted ==
  /\ videoEl'.made /\ videoEl'.src = videoIndex' /\ ~videoEl'.loaded
  /\ ~videoReady'

ModelReloadStarted ==
  /\ ~modelReady' /\ currentModelUrl' = modelIndex'
  /\ IF isImageUrl(modelIndex')
     THEN modelImageEl'.src = modelIndex' /\ modelImageEl'.pending
     ELSE modelVideoEl'.src = modelIndex' /\ ~modelVideoEl'.loaded

IndexesInBounds ==
  /\ photoIndex \in 0..(NPhoto - 1)
  /\ videoIndex \in 0..(NVideo - 1)
  /\ modelIndex \in 0..(NModel - 1)

VideoAndModelNavigate(d) ==
  /\ (TvState = "VIDEO" /\ OpNextVideo(d))
       => videoIndex' = WrapIdx(videoIndex, d, NVideo) /\ VideoReloadStarted
  /\ (TvState = "3D MODEL" /\ OpNextModel(d))
       => modelIndex' = WrapIdx(modelIndex, d, NModel) /\ ModelReloadStarted

(* C10 as stated: whenever the TV state is a media mode, navigate(mode, +-1)
   sets that mode's index to (index + delta) mod len and starts a reload of
   the asset at the new index; the indexes stay in bounds. *)
C10_NavigateAlwaysWraps ==
  /\ []IndexesInBounds
  /\ [][\A d \in Deltas :
          /\ (TvState = "PHOTO" /\ OpNextPhoto(d))
               => photoIndex' = WrapIdx(photoIndex, d, NPhoto) /\ PhotoReloadStarted
          /\ VideoAndModelNavigate(d)]_vars

(* C10 amended: as stated for VIDEO and 3D MODEL; in PHOTO the index moves
   and the reload starts only when no photo load is in progress, and while
   one is in progress the call changes nothing. *)
C10_NavigateWraps ==
  /\ []IndexesInBounds
  /\ [][\A d \in Deltas :
          /\ (TvState = "PHOTO" /\ ~photoLoading /\ OpNextPhoto(d))
               => photoIndex' = WrapIdx(photoIndex, d, NPhoto) /\ PhotoReloadStarted
          /\ (TvState = "PHOTO" /\ photoLoading /\ OpNextPhoto(d))
               => UNCHANGED St
          /\ VideoAndModelNavigate(d)]_vars

(* a navigation has wrapped to the last asset of the current gallery and
   its reload is under way *)
C10_Witness ==
  /\ tvOn
  /\ \/ lastOp = "nextPhoto" /\ tvUiState = "PHOTO" /\ photoIndex = NPhoto - 1
        /\ photoLoading /\ photoReqs[NPhoto - 1] > 0
     \/ lastOp = "nextVideo" /\ tvUiState = "VIDEO" /\ videoIndex = NVideo - 1
        /\ videoEl.src = NVideo - 1 /\ ~videoReady
     \/ lastOp = "nextModel" /\ tvUiState = "3D MODEL" /\ modelIndex = NModel - 1
        /\ modelImageEl.pending /\ ~modelReady

(* confirmMenuSelection() is called; a: whether the browser lets play() start *)
ConfirmCalled(a) == OpStep(confirmMenuSelection(St, a), "confirmMenuSelection")

(* C11: confirm in MENU moves the TV to the mode of the selected item and
   starts loading that mode's item 0, whatever the mode's index was; for
   VIDEO and 3D MODEL play() is requested, for PHOTO no player is touched. *)
C11_ConfirmLoadsItemZero ==
  [][\A a \in BOOLEAN :
       (TvState = "MENU" /\ ConfirmCalled(a)) =>
         /\ tvOn' /\ tvUiState' = MENU_ITEMS[menuIndex + 1]
         /\ tvUiState' = "PHOTO" =>
              /\ photoIndex' = 0 /\ PhotoReloadStarted /\ photoImage' = NoImage
              /\ UNCHANGED <<videoEl, modelVideoEl, videoPlaying, modelPlaying>>
         /\ tvUiState' = "VIDEO" =>
              /\ videoIndex' = 0 /\ VideoReloadStarted
              /\ a => ~videoEl'.paused
         /\ tvUiState' = "3D MODEL" =>
              /\ modelIndex' = 0 /\ ModelReloadStarted
              /\ a => ~modelVideoEl'.paused]_vars

(* a gallery was just re-entered at item 0 with play() requested, while
   the image of model item 4, visited before, is still loading *)
C11_Witness ==
  /\ lastOp = "confirmMenuSelection" /\ tvOn /\ tvUiState = "3D MODEL"
  /\ modelIndex = 0 /\ modelMediaType = "video" /\ ~modelVideoEl.paused
  /\ modelImageEl.pending

(* C12: after setTvPower(true) from OFF the TV is in MENU with the blink
   timer reset, no player is playing or holds a ready asset from before,
   the screen texture is attached, and the power animation from 0 to 1 and
   the boot phase have been started. *)
C12_PowerOnStartsClean ==
  [][(TvState = "OFF" /\ PowerClick) =>
       /\ tvOn' /\ tvUiState' = "MENU" /\ blinkT0' = now'
       /\ ~videoReady' /\ ~modelReady' /\ ~videoPlaying' /\ ~modelPlaying'
       /\ texOn'
       /\ tvAnim' = [active |-> TRUE, from |-> 0, to |-> 1, t0 |-> now']
       /\ tvBooting' /\ tvBootT0' = now']_vars

AnyOverlayOpen == overlayOpen \/ videoOverlayOpen \/ modelOverlayOpen

(* C13: an open overlay implies the TV is on and in the overlay's mode
   (photo: PHOTO, video: VIDEO, model: 3D MODEL), and no event changes the
   TV state or power while an overlay is open. *)
C13_OverlayMatchesMode ==
  /\ [](/\ overlayOpen => TvState = "PHOTO"
        /\ videoOverlayOpen => TvState = "VIDEO"
        /\ modelOverlayOpen => TvState = "3D MODEL")
  /\ [][AnyOverlayOpen => TvStateNext = TvState]_vars

(* an overlay is open and its player has gone fullscreen, or the photo
   overlay has been stepped to another photo *)
C13_Witness ==
  \/ videoOverlayOpen /\ tvVideoSuppressed /\ TvState = "VIDEO"
  \/ modelOverlayOpen /\ tvModelSuppressed /\ TvState = "3D MODEL"
  \/ overlayOpen /\ photoOverlayImg # 0 /\ TvState = "PHOTO"

(* closeVideoOverlay() / closeModelOverlay() run; a: whether play() may start *)
VideoOverlayClosed(a) == videoOverlayOpen /\ Step(closeVideoOverlay(St, a))
ModelOverlayClosed(a) == modelOverlayOpen /\ Step(closeModelOverlay(St, a))

(* the overlay player showed a video of the model gallery *)
ModelOverlayHasVideo == modelVideoEl.made /\ modelOverlayEl.src # NoIdx

(* C14: opening the video or model overlay pauses the in-world player,
   which stays paused while the overlay is open; closing the overlay
   stops the overlay player and, in the same step, leaves the in-world
   player paused if the overlay player was paused and has play() called
   on it if the overlay player was playing. *)
C14_OverlayPausesAndResyncs ==
  /\ [](/\ videoOverlayOpen => videoEl.paused
        /\ modelOverlayOpen => modelVideoEl.paused)
  /\ [][\A a \in BOOLEAN :
          /\ VideoOverlayClosed(a) =>
               /\ videoOverlayEl'.paused
               /\ videoOverlayEl.paused => videoEl'.paused
               /\ ~videoOverlayEl.paused => videoEl'.paused = ~a
          /\ ModelOverlayClosed(a) =>
               /\ modelOverlayEl'.paused
               /\ (ModelOverlayHasVideo /\ modelOverlayEl.paused)
                    => modelVideoEl'.paused
               /\ (ModelOverlayHasVideo /\ ~modelOverlayEl.paused)
                    => modelVideoEl'.paused = ~a]_vars

(* an overlay that was playing has been closed and the in-world player
   of its gallery is playing again *)
C14_Witness ==
  \/ /\ TvState = "VIDEO" /\ ~videoOverlayOpen /\ videoOverlayEl.src = DocUrl
     /\ ~videoEl.paused
  \/ /\ TvState = "3D MODEL" /\ ~modelOverlayOpen /\ modelOverlayEl.src = DocUrl
     /\ ~modelVideoEl.paused

(* ------------------------------------------------------------------ *)
(* C15: while an overlay is open the item it shows is the item at the   *)
(* in-world index of its mode, the in-world element holds that item     *)
(* and is paused; closing changes no index, so the TV is left on the    *)
(* item the overlay showed last.  Photo, video and model overlay alike. *)
(* ------------------------------------------------------------------ *)
OverlayClosing ==
  \/ overlayOpen /\ ~overlayOpen'
  \/ videoOverlayOpen /\ ~videoOverlayOpen'
  \/ modelOverlayOpen /\ ~modelOverlayOpen'

C15_OverlayItemIsInWorldItem ==
  /\ [](/\ overlayOpen =>
            photoOverlayImg = photoIndex /\ currentPhotoUrl = photoIndex
        /\ videoOverlayOpen =>
            /\ videoOverlayEl.src = videoIndex
            /\ videoEl.src = videoIndex /\ videoEl.paused
        /\ modelOverlayOpen =>
            /\ modelVideoEl.paused
            /\ currentModelUrl = modelIndex
            /\ IF isImageUrl(modelIndex)
               THEN modelMediaType = "image" /\ modelOverlayImg = modelIndex
               ELSE /\ modelMediaType = "video"
                    /\ modelOverlayEl.src = modelIndex
                    /\ modelVideoEl.src = modelIndex)
  /\ [][OverlayClosing =>
          /\ UNCHANGED <<photoIndex, videoIndex, modelIndex>>
          /\ UNCHANGED <<currentPhotoUrl, currentModelUrl, modelMediaType>>
          /\ videoEl'.src = videoEl.src /\ modelVideoEl'.src = modelVideoEl.src]_vars

(* the model overlay moved from a video to the image while open, or the *)
(* video overlay moved to the last video with the in-world video idle   *)
C15_Witness ==
  \/ /\ modelOverlayOpen /\ modelMediaType = "image"
     /\ modelOverlayEl.src \in 0..(NModel - 1) /\ modelOverlayImg = modelIndex
  \/ /\ videoOverlayOpen /\ videoIndex = NVideo - 1
     /\ videoOverlayEl.src = videoIndex /\ ~videoOverlayEl.paused /\ videoEl.paused


(* ------------------------------------------------------------------ *)
(* C16: while an overlay player is in native fullscreen (document-level *)
(* or iOS element-level) the in-world player of that kind is paused,    *)
(* its suppression flag is set and the other kind's flag is clear, and  *)
(* a frame of the render loop leaves the ScreenBuffer as it is; leaving *)
(* fullscreen clears the flags and redraws the current frame at once    *)
(* when the player is ready.                                            *)
(* ------------------------------------------------------------------ *)
VideoFs == fsEl \in {"video", "iosvideo"}
ModelFs == fsEl \in {"model", "iosmodel"}
FsLeft == fsEl # "none" /\ fsEl' = "none"

C16_FullscreenFreezesTv ==
  /\ [](/\ VideoFs => /\ videoOverlayOpen /\ videoEl.paused
                      /\ tvVideoSuppressed /\ ~tvModelSuppressed
        /\ ModelFs => /\ modelOverlayOpen /\ modelVideoEl.paused
                      /\ tvModelSuppressed /\ ~tvVideoSuppressed)
  /\ [][\A redraw \in BOOLEAN :
          (fsEl # "none" /\ Step(animate(St, redraw, FrameDt, 0))) => screen' = screen]_vars
  /\ [][FsLeft =>
          /\ ~tvVideoSuppressed' /\ ~tvModelSuppressed'
          /\ ~overlayVideoIsFullscreen' /\ ~overlayModelIsFullscreen'
          /\ (VideoFs /\ videoReady) => screen' = drawVideoFrameToTv(St).screen
          /\ (ModelFs /\ modelReady) => screen' = drawModelFrameToTv(St).screen]_vars

(* an overlay player in fullscreen over a TV whose player has its data *)
C16_Witness ==
  \/ VideoFs /\ videoReady /\ tvVideoSuppressed /\ TvState = "VIDEO"
  \/ ModelFs /\ modelReady /\ tvModelSuppressed /\ TvState = "3D MODEL"


(* ------------------------------------------------------------------ *)
(* C17: in 3D MODEL the ScreenBuffer holds only the asset at modelIndex *)
(* (a frame of the current video, the current image, or black), and the *)
(* completion of an asset that is no longer the current one (loadeddata *)
(* of the video after the index moved to the image, onload of the image *)
(* after the index moved to a video) changes neither modelReady nor the *)
(* ScreenBuffer.                                                        *)
(* ------------------------------------------------------------------ *)
ModelScreenIsCurrent ==
  \/ screen = ScrBlack
  \/ /\ ~isImageUrl(modelIndex) /\ screen = ScrFrame("M", modelIndex)
  \/ /\ isImageUrl(modelIndex) /\ screen = ScrImage(ModelImg(modelIndex))

(* loadeddata of the model video delivered while the current asset is the image *)
StaleModelVideoData ==
  /\ modelMediaType = "image"
  /\ modelVideoEl.q # <<>> /\ Head(modelVideoEl.q) = "loadeddata"
  /\ Step(modelVideoElOnEvent(
            [St EXCEPT !.modelVideoEl = [@ EXCEPT !.q = Tail(@)]], "loadeddata"))

(* onload of the model image delivered while the current asset is a video *)
StaleModelImageLoad ==
  /\ modelMediaType = "video"
  /\ modelImageEl.pending
  /\ Step(modelImageOnLoad(
            [St EXCEPT !.modelImageEl = [@ EXCEPT !.pending = FALSE,
                                                  !.complete = TRUE]]))

C17_ModelDrawsOnlyCurrent ==
  /\ [](TvState = "3D MODEL" => ModelScreenIsCurrent)
  /\ [][(TvState = "3D MODEL" /\ (StaleModelVideoData \/ StaleModelImageLoad))
          => modelReady' = modelReady /\ screen' = screen]_vars


(* ------------------------------------------------------------------ *)
(* C18: in VIDEO, from loadVideoAt until the loadeddata of the new      *)
(* source (videoReady false) the ScreenBuffer is black, whatever is     *)
(* drawn or redrawn in between.                                         *)
(* ------------------------------------------------------------------ *)
C18_BlackUntilFirstFrame ==
  (TvState = "VIDEO" /\ ~videoReady) => screen = ScrBlack


(* ------------------------------------------------------------------ *)
(* C19: a track that ends advances the playlist exactly when it is the  *)
(* track at trackIndex and isPlaying is set; any other 'ended' changes  *)
(* neither trackIndex nor isPlaying and starts no element.  trackIndex   *)
(* moves only on a speaker click or such an 'ended'.  The video adapter *)
(* loops and has no 'ended' listener: videoIndex moves and the video    *)
(* starts only on a click on the remote, never on a media event.        *)
(* ------------------------------------------------------------------ *)
NoTrackStarts == \A j \in 0..(NTracks - 1) : audioEls[j].paused => audioEls'[j].paused

C19_AutoAdvanceOnlyIfActive ==
  /\ [][\A i \in 0..(NTracks - 1), a \in BOOLEAN :
          AudioEndedAt(i, a) =>
            IF i = trackIndex /\ isPlaying
            THEN /\ trackIndex' = (trackIndex + 1) % NTracks
                 /\ a => isPlaying' /\ ~audioEls'[trackIndex'].paused
            ELSE /\ trackIndex' = trackIndex /\ isPlaying' = isPlaying
                 /\ NoTrackStarts]_vars
  /\ [][trackIndex' # trackIndex => lastOp' \in {"speaker", "ended"}]_vars
  /\ [][(videoIndex' # videoIndex \/ (videoEl.paused /\ ~videoEl'.paused))
          => lastOp' = "remote"]_vars

(* the end of a track delivered after the user paused it: ignored *)
C19_Witness ==
  /\ lastOp = "ended" /\ ~isPlaying
  /\ trackIndex = 0 /\ audioEls[0].atEnd /\ audioEls[0].paused


(* ------------------------------------------------------------------ *)
(* C20: an external link is opened only by the pointer-up that directly *)
(* follows a pointer-down on a link prop, once; a pointer-up after a    *)
(* pointer-cancel or after a pointer-down elsewhere opens nothing.      *)
(* ------------------------------------------------------------------ *)
C20_LinkOpensOnlyOnItsPointerUp ==
  [][externalOpens' # externalOpens =>
       /\ lastOp = "pointerdown:link" /\ lastOp' = "pointerup"
       /\ externalOpens' = externalOpens + 1]_vars



(* ------------------------------------------------------------------ *)
(* Hover glow and hover hints (SpecHover)                               *)
(* ------------------------------------------------------------------ *)
HoverOn(b) == ptrOver = b /\ (b = "power" \/ tvOn)

(* C21: the glow's hover starts when the pointer enters the button; once  *)
(* the hover has lasted MAX_GLOW_HOVER_MS the next frame or pointer move   *)
(* forces the glow target to 0, a forced-off glow has target 0, and the    *)
(* target goes from 0 to 1 only in a step in which a new hover begins.     *)
C21_GlowCutOffPerHover ==
  /\ [](\A b \in Buttons :
          /\ glowState[b].forcedOff => glowState[b].target = 0
          /\ HoverOn(b) => glowState[b].hoverStartMs = ptrSince
          /\ glowState[b].target = 1 => HoverOn(b))
  /\ [][\A b \in Buttons :
          /\ (HoverOn(b) /\ HoverOn(b)' /\ ptrSince' = ptrSince
                /\ now' - ptrSince' >= MAX_GLOW_HOVER_MS
                /\ lastOp' \in {"animate", "pointermove"})
               => (glowState'[b].target = 0 /\ glowState'[b].forcedOff)
          /\ (glowState[b].forcedOff /\ ~glowState'[b].forcedOff)
               => ~HoverOn(b)'
          /\ (glowState[b].target = 0 /\ glowState'[b].target = 1)
               => (~HoverOn(b) /\ HoverOn(b)' /\ ptrSince' = now')]_vars

C21_Witness ==
  \E b \in Buttons :
    /\ HoverOn(b) /\ now - ptrSince >= MAX_GLOW_HOVER_MS
    /\ lastOp = "animate"
    /\ glowState[b].forcedOff /\ glowState[b].target = 0


(* C22: the hint of a key is shown in the step in which the hover on the   *)
(* key begins, is hidden by its timeout HINT_AUTOHIDE_MS after that at the  *)
(* latest, and appears only when a hover begins; a pending timeout always   *)
(* belongs to the hover that is going on, a hint is hidden only by its own  *)
(* timeout or by the end of its hover, and at most one hint is shown.       *)
C22_HintPerHoverSession ==
  /\ [](/\ Cardinality(hintShown) <= 1
        /\ hintShown \subseteq {currentHoverKey} \ {NoKey}
        /\ hintShown # {} =>
              (/\ hintTimeout = [on |-> TRUE, key |-> currentHoverKey,
                                 due |-> ptrSince + HINT_AUTOHIDE_MS]
               /\ now <= ptrSince + HINT_AUTOHIDE_MS)
        /\ hintTimeout.on => hintShown = {hintTimeout.key}
        /\ \A k \in HoverKeys : hintSuppressed[k] =>
              (k = currentHoverKey /\ now >= ptrSince + HINT_AUTOHIDE_MS))
  /\ [][/\ (currentHoverKey' # currentHoverKey /\ currentHoverKey' # NoKey)
            => (hintShown' = {currentHoverKey'} /\ ptrSince' = now')
        /\ (hintShown' # {} /\ hintShown' # hintShown)
            => currentHoverKey' # currentHoverKey
        /\ (hintShown # {} /\ hintShown' = {}
              /\ currentHoverKey' = currentHoverKey)
            => (lastOp' = "hintTimeout"
                /\ now' = ptrSince + HINT_AUTOHIDE_MS)
        /\ lastOp' = "hintTimeout"
            => (hintShown' = {} /\ hintSuppressed'[currentHoverKey])]_vars

(* a hint hidden by its timeout while the hover on its key goes on, for a  *)
(* hover that is not the first thing the pointer did                        *)
C22_Witness ==
  /\ currentHoverKey = "ok" /\ ptrOver = "ok" /\ ptrSince > HoverTickMs
  /\ hintSuppressed["ok"] /\ hintShown = {}
  /\ now >= ptrSince + HINT_AUTOHIDE_MS


(* ------------------------------------------------------------------ *)
(* Night vision auto-gain (SpecNightVision)                             *)
(* ------------------------------------------------------------------ *)
AeSampleTaken == aeSamples' = aeSamples + 1

(* C23: a sample that finds the average luminance 0.09, half the target    *)
(* 0.18, moves the gain towards min(aeMaxGain, 2.0) by exactly one tenth   *)
(* of the remaining distance: strictly closer, on the same side, never     *)
(* across; the first sample after enabling starts from 1.45.               *)
C23_GainApproachesLimit ==
  [][LET limit == Min(aeMaxGain, 2 * 1000 * GainPerMilli)
     IN (AeSampleTaken /\ avgLuma' = 900) =>
          /\ AE_ADAPT_INV * (aeGain' - aeGain) = limit - aeGain
          /\ aeGain < limit => (aeGain < aeGain' /\ aeGain' < limit)
          /\ aeGain > limit => (limit < aeGain' /\ aeGain' < aeGain)
          /\ aeGain = AE_INIT_GAIN => aeGain' = 150500000
          /\ nightVisionPass'.uGain = aeGain']_vars

(* three samples at luminance 0.09 since enabling: 2 - 0.55 * 0.9^3 *)
C23_Witness ==
  /\ nightVisionOn /\ lastOp = "animate" /\ avgLuma = 900
  /\ aeSamples = 3 /\ aeGain = 159905000

(* C24: every click on the lamp that enables night vision resets the live  *)
(* gain to 1.45 and the sample accumulator to 0 and, where the shader pass  *)
(* exists, sets its gain uniform to the same value.                         *)
C24_EnableResetsGain ==
  [][(lastOp' = "lampClick" /\ nightVisionOn') =>
       /\ ~nightVisionOn
       /\ aeGain' = AE_INIT_GAIN
       /\ aeSampleAccum' = 0
       /\ nightVisionPass'.made =>
             (nightVisionPass'.uGain = aeGain' /\ nightVisionPass'.uOn = 1)]_vars

(* night vision enabled again after the gain had adapted *)
C24_Witness ==
  /\ lastOp = "lampClick" /\ nightVisionOn /\ nightVisionPass.made
  /\ aeSamples >= 2 /\ avgLuma = 200
  /\ aeGain = AE_INIT_GAIN /\ nightVisionPass.uGain = AE_INIT_GAIN


(* C25: every pending photo load eventually leaves the loading state, with *)
(* no load or error callback owed by the network.                          *)
C25_PhotoLoadEnds == photoLoading ~> ~photoLoading


(* C26: every asset registered with the loading tracker is eventually       *)
(* released and the loader eventually finishes, with no load or error event  *)
(* owed by the network.                                                      *)
C26_LoaderFinishes ==
  /\ \A a \in Assets : <>assetFinished[a]
  /\ <>loaderFinished


(* ------------------------------------------------------------------ *)
(* MENU-button hit tests (SpecScreen)                                   *)
(* ------------------------------------------------------------------ *)
ScreenActive ==
  /\ tvOn /\ tvUiState \in {"PHOTO", "VIDEO", "3D MODEL"}
  /\ ~(overlayOpen \/ videoOverlayOpen \/ modelOverlayOpen)

(* C27: with px = uv.x * 1920 and py = uv.y * 1080 (repeat 1, offset 0) a   *)
(* point of the screen is on the MENU button exactly when 1664 <= px <=    *)
(* 1884 and 36 <= py <= 122: a pointer move in a media mode sets menuHover  *)
(* to that, a click in PHOTO, VIDEO or 3D MODEL returns to MENU exactly     *)
(* then, and a click right after a move decides as the move did.            *)
C27_HitTestsAgree ==
  [][LET OnButton(uv) == /\ 1664 <= uv[1] /\ uv[1] <= 1884
                         /\ 36 <= uv[2] /\ uv[2] <= 122
     IN /\ (ScreenActive /\ lastOp' = "screenMove")
             => (menuHover' = OnButton(ptrUv'))
        /\ (ScreenActive /\ lastOp' = "screenClick")
             => ((tvUiState' = "MENU") = OnButton(ptrUv))
        /\ (ScreenActive /\ lastOp = "screenMove" /\ lastOp' = "screenClick")
             => ((tvUiState' = "MENU") = menuHover)]_vars

(* UV (0.95, 0.05), pixel (1824, 54): hovered, then clicked in VIDEO *)
C27_Witness ==
  /\ plan = {"VIDEO"} /\ ptrUv = <<1824, 54>>
  /\ lastOp = "screenClick" /\ tvOn /\ tvUiState = "MENU" /\ menuHover


(* ------------------------------------------------------------------ *)
(* Destination rectangle of the draw routines (SpecDraw)                *)
(* ------------------------------------------------------------------ *)
DrawOps == {"drawPhotoToTv", "drawVideoFrameToTv", "drawModelFrameToTv"}

(* a / b as fractions: x.n / x.d *)
FracLeq(x, y) == x.n * y.d <= y.n * x.d

(* C28: for the source size at hand the three routines compute the same     *)
(* rectangle; the rectangle a routine draws keeps the source's aspect       *)
(* ratio, is centred on the 1920x1080 buffer, is 1.02 times the buffer in   *)
(* one dimension and at least that in the other (scale = max(1920 / iw,     *)
(* 1080 / ih), times 1.02), and so covers the buffer; 800x600 gives scale   *)
(* 2.4: 1958.4 x 1468.8 at (-19.2, -194.4).                                 *)
C28_SameCoverRectangle ==
  /\ [](/\ photoDestRect(srcSize[1], srcSize[2])
             = videoDestRect(srcSize[1], srcSize[2])
        /\ videoDestRect(srcSize[1], srcSize[2])
             = modelDestRect(srcSize[1], srcSize[2]))
  /\ [][lastOp' \in DrawOps =>
         LET r == drawRect'
             iw == srcSize[1]
             ih == srcSize[2]
             W102 == Frac(1920 * 102, 100)
             H102 == Frac(1080 * 102, 100)
         IN /\ r.dw.n * r.dh.d * ih = r.dh.n * r.dw.d * iw
            /\ r.dx = Frac(1920 * r.dw.d - r.dw.n, 2 * r.dw.d)
            /\ r.dy = Frac(1080 * r.dh.d - r.dh.n, 2 * r.dh.d)
            /\ r.dw = W102 \/ r.dh = H102
            /\ FracLeq(W102, r.dw) /\ FracLeq(H102, r.dh)
            /\ r.dx.n <= 0 /\ r.dy.n <= 0
            /\ srcSize = <<800, 600>> =>
                  r = [dw |-> Frac(19584, 10), dh |-> Frac(14688, 10),
                       dx |-> Frac(0 - 192, 10), dy |-> Frac(0 - 1944, 10)]]_vars

(* the 800x600 source drawn by the video routine *)
C28_Witness ==
  /\ lastOp = "drawVideoFrameToTv" /\ srcSize = <<800, 600>>
  /\ drawRect.dw = Frac(19584, 10)


(* ------------------------------------------------------------------ *)
(* Load failures (Spec)                                                 *)
(* ------------------------------------------------------------------ *)
(* C29: the failure of a photo load or of a model image load clears the     *)
(* loading flag and changes neither the TV state, nor the media indexes,    *)
(* nor the image held, nor what is displayed; with the TV in that gallery   *)
(* and no overlay open, next and previous are accepted right after it and   *)
(* the MENU button returns to the menu.                                     *)
C29_FailureLeavesTvUsable ==
  [][/\ PhotoFailed =>
          /\ ~photoLoading'
          /\ <<tvOn, tvUiState, menuIndex, photoIndex, videoIndex, modelIndex,
               photoImage, currentPhotoUrl, screen, texOn>>'
             = <<tvOn, tvUiState, menuIndex, photoIndex, videoIndex, modelIndex,
                 photoImage, currentPhotoUrl, screen, texOn>>
          /\ (tvOn' /\ tvUiState' = "PHOTO" /\ ~AnyOverlayOpen') =>
                /\ \A d \in Deltas :
                      /\ nextPhoto(St', d).photoIndex
                           = (photoIndex' + d + NPhoto) % NPhoto
                      /\ nextPhoto(St', d).photoLoading
                /\ onPointerDown(St', "screen", "btn", TRUE).tvUiState = "MENU"
     /\ ModelImageFailed =>
          /\ ~modelImageLoading'
          /\ <<tvOn, tvUiState, menuIndex, photoIndex, videoIndex, modelIndex,
               modelReady, modelMediaType, currentModelUrl, screen, texOn>>'
             = <<tvOn, tvUiState, menuIndex, photoIndex, videoIndex, modelIndex,
                 modelReady, modelMediaType, currentModelUrl, screen, texOn>>
          /\ (tvOn' /\ tvUiState' = "3D MODEL" /\ ~AnyOverlayOpen') =>
                /\ \A d \in Deltas :
                      nextModel(St', d, TRUE).modelIndex
                        = (modelIndex' + d + NModel) % NModel
                /\ onPointerDown(St', "screen", "btn", TRUE).tvUiState = "MENU"
    ]_vars

(* PHOTO with a photo requested, none held and no request pending: the      *)
(* request has failed and the screen shows no photo                         *)
C29_Witness ==
  /\ tvOn /\ tvUiState = "PHOTO" /\ ~AnyOverlayOpen
  /\ currentPhotoUrl # NoIdx /\ photoImage = NoImage
  /\ ~photoLoading /\ PendingPhotoLoads(St) = 0


(* ------------------------------------------------------------------ *)
(* Power animation (SpecClock)                                          *)
(* ------------------------------------------------------------------ *)
PowerLevel(on) == IF on THEN PowerOne ELSE 0

(* C30: a power toggle flips tvOn in its own step, whether or not an        *)
(* animation is under way, and starts an animation towards the new state;   *)
(* an active animation always targets the current logical state; whenever   *)
(* no animation is active the visual level tvPower is exactly 1 with the TV *)
(* on and 0 with it off.                                                    *)
C30_PowerLevelFollowsState ==
  /\ [](/\ ~tvAnim.active => tvPower = PowerLevel(tvOn)
        /\ tvAnim.active => tvAnim.to = (IF tvOn THEN 1 ELSE 0)
        /\ 0 <= tvPower /\ tvPower <= PowerOne)
  /\ [][\A on \in BOOLEAN :
          (lastOp' = (IF on THEN "setTvPower(true)" ELSE "setTvPower(false)")
            /\ tvOn # on)
          => /\ tvOn' = on
             /\ tvAnim'.active /\ tvAnim'.t0 = now
             /\ tvAnim'.to = (IF on THEN 1 ELSE 0)]_vars

(* switched on and off again before the first animation had ended; the      *)
(* second animation has run out: the level is exactly 0                     *)
C30_Witness ==
  /\ ~tvOn /\ ~tvAnim.active /\ tvPower = 0
  /\ screen = ScrBlack /\ lastOp = "animate"

(* ------------------------------------------------------------------ *)
(* Boot sub-phase of the power animation (SpecClock)                    *)
(* ------------------------------------------------------------------ *)
(* C31: whenever tvBooting is set the TV is on and the active animation     *)
(* targets on, and a frame that runs updateTv on a power-off animation      *)
(* takes neither the flash nor the flicker branch on the emissive           *)
(* intensity.                                                               *)
C31_BootOnlyDuringPowerOn ==
  /\ [](tvBooting => tvOn /\ tvAnim.active /\ tvAnim.to = 1)
  /\ [][(lastOp' = "animate" /\ tvAnim.active /\ tvAnim.to = 0)
          => bootPhase(St) \notin {"flash", "flicker"}]_vars

(* ------------------------------------------------------------------ *)
(* Button press (SpecPress)                                             *)
(* ------------------------------------------------------------------ *)
(* C32: a button's press target rises to 1 only in a pointer-down whose     *)
(* first hit is that button; after a pointer-up, a pointer-cancel or a      *)
(* pointer-leave every press target is 0; the press interpolation value of  *)
(* every button stays within 0..1.                                          *)
C32_PressOnlyWhileHeld ==
  /\ [](\A b \in Buttons :
          /\ pressState[b].target \in {0, 1}
          /\ 0 <= pressState[b].t /\ pressState[b].t <= PressOne)
  /\ [][\A b \in Buttons :
          (pressState[b].target = 0 /\ pressState'[b].target = 1)
          => lastOp' = DownOn(b)]_vars
  /\ [][lastOp' \in {"pointerup", "pointercancel", "pointerleave"}
          => \A b \in Buttons : pressState'[b].target = 0]_vars

(* the power button was held over two frames and OK over one, then the      *)
(* pointer left the canvas: both targets are back to 0, both buttons are    *)
(* still partly down                                                        *)
C32_Witness ==
  /\ lastOp = "pointerleave"
  /\ \A b \in Buttons : pressState[b].target = 0
  /\ pressState["power"].t > pressState["ok"].t
  /\ pressState["ok"].t > 0
  /\ pressState["power"].t < PressOne

(* ------------------------------------------------------------------ *)
(* Lamp (SpecLamp)                                                      *)
(* ------------------------------------------------------------------ *)
(* C33: a click on the lamp, with no overlay open, flips lampMood between   *)
(* 0 and 1 and sets nightVisionOn to (lampMood = 1) in the same step,       *)
(* leaving the TV state, the menu index, the media indexes and the overlay  *)
(* flags as they were; in every reachable state nightVisionOn equals        *)
(* (lampMood = 1).                                                          *)
C33_LampTogglesMoodAndNightVision ==
  /\ [](lampMood \in {0, 1} /\ nightVisionOn = (lampMood = 1))
  /\ [][(lastOp' = "lampClick" /\ ~AnyOverlayOpen)
          => /\ lampMood' = 1 - lampMood
             /\ nightVisionOn' = (lampMood' = 1)
             /\ TvStateNext = TvState
             /\ menuIndex' = menuIndex
             /\ <<photoIndex, videoIndex, modelIndex>>'
                  = <<photoIndex, videoIndex, modelIndex>>
             /\ <<overlayOpen, videoOverlayOpen, modelOverlayOpen>>'
                  = <<overlayOpen, videoOverlayOpen, modelOverlayOpen>>]_vars

(* the lamp was clicked with the TV on in VIDEO at the second video: night  *)
(* vision is on, the TV is still there                                      *)
C33_Witness ==
  /\ lastOp = "lampClick"
  /\ lampMood = 1 /\ nightVisionOn
  /\ tvOn /\ tvUiState = "VIDEO" /\ videoIndex = 1

(* ------------------------------------------------------------------ *)
(* Sampling of the auto-gain (SpecNightVision)                          *)
(* ------------------------------------------------------------------ *)
(* C34: a frame changes the auto-gain only if night vision is enabled and   *)
(* the frame time accumulated since the last sample, this frame included,   *)
(* has reached 1/12 s; it then takes one sample and starts accumulating     *)
(* from 0.  Every other frame leaves the gain and the shader's gain uniform *)
(* unchanged, and only adds its frame time to the accumulator while night   *)
(* vision is enabled: two gain updates are at least 1/12 s of frame time    *)
(* apart, however many frames are rendered.                                 *)
C34_GainSampledByTime ==
  /\ [](0 <= aeSampleAccum /\ aeSampleAccum < AE_SAMPLE_PERIOD)
  /\ [][lastOp' = "animate" =>
          \E dt \in FrameDts :
            IF nightVisionOn /\ nightVisionPass.made
               /\ aeSampleAccum + dt >= AE_SAMPLE_PERIOD
            THEN /\ aeSamples' = aeSamples + 1
                 /\ aeSampleAccum' = 0
                 /\ nightVisionPass'.uGain = aeGain'
            ELSE /\ aeGain' = aeGain
                 /\ nightVisionPass' = nightVisionPass
                 /\ aeSamples' = aeSamples
                 /\ aeSampleAccum' = (IF nightVisionOn /\ nightVisionPass.made
                                      THEN aeSampleAccum + dt
                                      ELSE aeSampleAccum)]_vars

(* a frame after the first sample: the gain has adapted once, the           *)
(* accumulator counts this frame's time only                                *)
C34_Witness ==
  /\ lastOp = "animate" /\ nightVisionOn /\ nightVisionPass.made
  /\ aeSamples = 1 /\ aeGain # AE_INIT_GAIN
  /\ aeSampleAccum \in FrameDts

(* ------------------------------------------------------------------ *)
(* Playing flags (Spec)                                                 *)
(* ------------------------------------------------------------------ *)
(* C35: videoPlaying implies the TV is on and in VIDEO, modelPlaying        *)
(* implies the TV is on and in 3D MODEL, and the two flags are never true   *)
(* together, in every reachable state: also after a play-request            *)
(* completion or a 'play' event is delivered once the TV is back in MENU.   *)
C35_PlayingOnlyInOwnMode ==
  /\ videoPlaying => (tvOn /\ tvUiState = "VIDEO")
  /\ modelPlaying => (tvOn /\ tvUiState = "3D MODEL")
  /\ ~(videoPlaying /\ modelPlaying)

(* ------------------------------------------------------------------ *)
(* Navigation keeps the playing state (SpecNav)                         *)
(* ------------------------------------------------------------------ *)
(* C36: left / right in VIDEO, and in 3D MODEL from one video to another,   *)
(* keeps the playing state.  If the element was not paused when the button  *)
(* was pressed (playback running, or requested by play() and not yet        *)
(* started), play() is called for the new item, which leaves the element    *)
(* not paused; if it was paused, the new item is left paused and the        *)
(* playing flag false.                                                      *)
C36_NavigationKeepsPlaying ==
  [][/\ (lastOp' = "nextVideo" /\ videoEl.made)
          => /\ ~videoEl.paused => ~videoEl'.paused
             /\ videoEl.paused => (videoEl'.paused /\ ~videoPlaying')
     /\ (lastOp' = "nextModel" /\ modelVideoEl.made
           /\ modelMediaType = "video" /\ isVideoUrl(modelIndex'))
          => /\ ~modelVideoEl.paused => ~modelVideoEl'.paused
             /\ modelVideoEl.paused => (modelVideoEl'.paused /\ ~modelPlaying')]_vars

(* ------------------------------------------------------------------ *)
(* MENU-button hover flag (SpecScreen)                                  *)
(* ------------------------------------------------------------------ *)
(* C37: menuHover is true only while the TV is on in PHOTO, VIDEO or        *)
(* 3D MODEL and the pointer is over the screen inside the rectangle of the  *)
(* in-canvas MENU button; in particular it is false once the TV state has   *)
(* changed to MENU or to OFF.                                               *)
C37_MenuHoverOnlyOverButton ==
  menuHover =>
    /\ tvOn /\ tvUiState \in {"PHOTO", "VIDEO", "3D MODEL"}
    /\ ptrOver = "screen"
    /\ hoverInMenuBtn(ptrUv[1], ptrUv[2])

(* ------------------------------------------------------------------ *)
(* Overlay guard of onPointerDown (SpecOverlayGuard)                    *)
(* ------------------------------------------------------------------ *)
(* C38: at most one of the photo, video and model overlays is open, and a   *)
(* pointer-down on the canvas while an overlay is open changes none of the  *)
(* program's variables: no power toggle, no lamp toggle, no queued link,    *)
(* no press target, no TV input.                                            *)
C38_OverlayBlocksPointerDown ==
  /\ [](/\ ~(overlayOpen /\ videoOverlayOpen)
        /\ ~(overlayOpen /\ modelOverlayOpen)
        /\ ~(videoOverlayOpen /\ modelOverlayOpen))
  /\ [][(lastOp' \in DownOps /\ AnyOverlayOpen) => St' = St]_vars

(* the power button was clicked under the open video overlay: the TV is     *)
(* still on in VIDEO, the button is not pressed, the overlay is open        *)
C38_Witness ==
  /\ lastOp = "pointerdown:power" /\ videoOverlayOpen
  /\ tvOn /\ tvUiState = "VIDEO"
  /\ pressState["power"].target = 0
  /\ lampMood = 1

(* ------------------------------------------------------------------ *)
(* Range of the auto-gain (SpecNightVision)                             *)
(* ------------------------------------------------------------------ *)
(* C39: in every reachable state the live gain aeGain lies within           *)
(* [aeMinGain, aeMaxGain] = [0.80, 3.20], whatever luminances are measured  *)
(* (0 included) and however night vision is toggled, and the shader's gain  *)
(* uniform, where the shader pass exists, equals the live gain.             *)
C39_GainWithinLimits ==
  /\ aeMinGain <= aeGain /\ aeGain <= aeMaxGain
  /\ nightVisionPass.made => nightVisionPass.uGain = aeGain

(* night vision was enabled again after two samples, and the first sample   *)
(* since found a black scene: 1.45 + (3.20 - 1.45) / 10                     *)
C39_Witness ==
  /\ lastOp = "animate" /\ nightVisionOn /\ nightVisionPass.made
  /\ avgLuma = 0 /\ aeSamples = 3
  /\ aeGain = 162500000 /\ nightVisionPass.uGain = 162500000

====
